---- MODULE Spec2Model ----
(***************************************************************************)
(* hashtrade: the trading tools (tools/analysis.py, tools/position.py,     *)
(* tools/liquidity.py) and the per-symbol partial-close tracker of         *)
(* agent3.py (LiquiditySweepAgent).                                        *)
(*                                                                         *)
(* The tools are functions of their arguments: each is an operator, and a  *)
(* tool specification draws a call from a bounded set of arguments, applies *)
(* the tool and records the returned dict.  The tracker is a state machine *)
(* over the two dicts the agent keeps, driven once per cycle by the        *)
(* open-position list.  The two JSON files the dicts are mirrored to are   *)
(* written in every cycle and read only by __init__; what the model keeps  *)
(* of them is whether the write of position_sizes.json succeeded, because  *)
(* _save_position_sizes updates the dict only after a successful write.    *)
(*                                                                         *)
(* SpecTracker and SpecLifecycle hand the tracker the open-position list   *)
(* directly, SpecLifecycle from the positions of one symbol at the         *)
(* exchange, with check_rr asked once per cycle; SpecState runs the start  *)
(* of run_cycle through get_current_state and bybit_v5 get_positions.      *)
(*                                                                         *)
(* Numbers.  The Python code computes in floats; the model computes the    *)
(* same expressions over exact rationals, scaled to integers (prices in    *)
(* price units, money in cents, quantities in millionths).  round(x, k) is *)
(* round-half-even of the exact value.                                     *)
(***************************************************************************)
EXTENDS Integers, Sequences, FiniteSets, TLC

VARIABLES
    call,                 \* the arguments of the tool call being made
    result,               \* the dict the tool returned ("pending" before)
    trade_count,          \* LiquiditySweepAgent.trade_count: cycles started
    partial_closed,       \* LiquiditySweepAgent.partial_closed (symbol -> True)
    last_position_sizes,  \* LiquiditySweepAgent.last_position_sizes
    open_positions,       \* state['open_positions'] of the last cycle
    positions_text,       \* state['positions_text'] of the last cycle
    marked,               \* history: the symbols the last cycle marked, each
                          \* with the [last, current] sizes it compared
    exchange              \* the positions open at the exchange, each with
                          \* the history of what the cycles saw of it

vars == <<call, result, trade_count, partial_closed, last_position_sizes,
          open_positions, positions_text, marked, exchange>>

tracker_vars == <<trade_count, partial_closed, last_position_sizes,
                  open_positions, positions_text, marked, exchange>>

----------------------------------------------------------------------------
(* Arithmetic helpers: the float operations of the code on exact values.   *)

Abs(x) == IF x < 0 THEN -x ELSE x

Max(a, b) == IF a >= b THEN a ELSE b

Min(a, b) == IF a <= b THEN a ELSE b

\* int(n/d) for d > 0: truncation toward zero.
Trunc(n, d) == IF n >= 0 THEN n \div d ELSE -((-n) \div d)

\* round(n/d) for d > 0 to an integer, ties to even (Python 3 round()).
RoundDiv(n, d) ==
    LET q == n \div d            \* floor
        r == n - q * d           \* 0 <= r < d
    IN  IF 2 * r < d THEN q
        ELSE IF 2 * r > d THEN q + 1
        ELSE IF q % 2 = 0 THEN q ELSE q + 1

\* The dict a tool specification holds before the tool has returned.
Pending == [status |-> "pending"]

\* A dict with no keys.
EmptyMap == [s \in {} |-> 0]

\* The agent after __init__ with no persisted files: both dicts empty.
TrackerIdle ==
    /\ trade_count = 0
    /\ partial_closed = EmptyMap
    /\ last_position_sizes = EmptyMap
    /\ open_positions = EmptyMap
    /\ positions_text = "None"
    /\ marked = EmptyMap
    /\ exchange = EmptyMap

----------------------------------------------------------------------------
(* tools/analysis.py: check_entry_signal                                   *)

\* The trend values detect_market_structure produces.
Trends == {"uptrend", "downtrend", "ranging", "undefined"}

\* indicators.ema_trend as analyze_market sets it (None when an EMA is missing).
EmaTrends == {"bullish", "bearish", "neutral", "None"}

\* indicators.rsi; 0 stands for every falsy value (None, 0.0).
RsiValues == {0, 30, 31, 69, 70}

\* indicators.volume_ratio in tenths.
VolumeRatios == {10, 12, 13}

\* liquidity_sweep: not detected, or detected with a type.
SweepKinds == {"none", "bullish_sweep", "bearish_sweep"}

\* indicators.atr / atr_pct: a number, None, or the key missing.
AtrKinds == {"value", "None", "missing"}

\* The analyze_market results check_entry_signal is handed.
Analyses ==
    { [fn |-> "check_entry_signal", status |-> "error"] } \cup
    [ fn : {"check_entry_signal"},
      status : {"success"},
      trend : Trends,
      ema_trend : EmaTrends,
      rsi : RsiValues,
      sweep : SweepKinds,
      has_zone : BOOLEAN,
      zone_entry : {0, 100},
      volume_ratio : VolumeRatios,
      atr : AtrKinds,
      current_price : {0, 100} ]

\* The decision threshold of check_entry_signal ("if score >= 5").
ScoreThreshold == 5

\* The points each evidence item adds to the score.
EmaPoints(data) ==
    IF \/ (data.trend = "uptrend" /\ data.ema_trend = "bullish")
       \/ (data.trend = "downtrend" /\ data.ema_trend = "bearish")
    THEN 1 ELSE 0

RsiPoints(data) ==
    IF data.rsi # 0
    THEN IF data.trend = "uptrend" /\ data.rsi < 70 THEN 1
         ELSE IF data.trend = "downtrend" /\ data.rsi > 30 THEN 1
         ELSE 0
    ELSE 0

SweepPoints(data) ==
    IF data.sweep # "none"
    THEN IF \/ (data.trend = "uptrend" /\ data.sweep = "bullish_sweep")
            \/ (data.trend = "downtrend" /\ data.sweep = "bearish_sweep")
         THEN 3 ELSE 0
    ELSE 0

ZonePoints(data) == IF data.has_zone THEN 2 ELSE 0

VolumePointsMutant(data) == IF data.volume_ratio > 12 THEN -1 ELSE 0

VolumePoints(data) == IF data.volume_ratio > 12 THEN 1 ELSE 0

\* The score after all six checks (the trend check already passed: +2).
Score(data) ==
    2 + EmaPoints(data) + RsiPoints(data) + SweepPoints(data)
      + ZonePoints(data) + VolumePoints(data)

\* The exceptions the body can raise, all caught by "except Exception".
SignalRaises(data) ==
    \* zone["entry"] == 0: ZeroDivisionError in sl_distance_pct
    \/ data.has_zone /\ data.zone_entry = 0
    \* atr_pct is None: None * 1.5 is a TypeError
    \/ ~data.has_zone /\ data.atr = "None"
    \* entry_price == 0: ZeroDivisionError in the returned sl_distance_pct
    \/ ~data.has_zone /\ Score(data) >= ScoreThreshold /\ data.current_price = 0

\* "if trend in ['uptrend', 'downtrend']": the required clear trend.
TrendGate(data) == data.trend \in {"uptrend", "downtrend"}

EntryDecisionMutant(data) == Score(data) >= ScoreThreshold - 1

\* "if score >= 5": the decision threshold.
EntryDecision(data) == Score(data) >= ScoreThreshold

check_entry_signal(data) ==
    IF data.status = "error" THEN [status |-> "error"]
    ELSE IF ~TrendGate(data)
    THEN [status |-> "success", signal |-> "NO_TRADE", direction |-> "None",
          score |-> 0]
    ELSE IF SignalRaises(data) THEN [status |-> "error"]
    ELSE IF EntryDecision(data)
    THEN [status |-> "success", signal |-> "ENTRY",
          direction |-> IF data.trend = "uptrend" THEN "LONG" ELSE "SHORT",
          score |-> Score(data)]
    ELSE [status |-> "success", signal |-> "NO_TRADE", direction |-> "None",
          score |-> Score(data)]

\* One call of check_entry_signal with the analysis at hand.
CheckEntrySignal ==
    /\ call.fn = "check_entry_signal"
    /\ result = Pending
    /\ result' = check_entry_signal(call)
    /\ UNCHANGED <<call, tracker_vars>>

InitSignal == call \in Analyses /\ result = Pending /\ TrackerIdle

NextSignal == CheckEntrySignal

SpecSignal == InitSignal /\ [][NextSignal]_vars

\* A check_entry_signal call has returned a non-error dict.
SignalReturned ==
    /\ call.fn = "check_entry_signal"
    /\ result.status = "success"

\* C1: check_entry_signal returns ENTRY only for an uptrend or downtrend with
\* a total score of at least 5; a ranging or undefined trend gives NO_TRADE
\* whatever the other evidence is; and every non-error result with a defined
\* trend and a score of at least 5 is ENTRY, LONG for an uptrend and SHORT
\* for a downtrend.
C1_EntryOnlyOnTrendAndScore ==
    SignalReturned =>
        /\ result.signal \in {"ENTRY", "NO_TRADE"}
        /\ result.signal = "ENTRY" =>
               /\ call.trend \in {"uptrend", "downtrend"}
               /\ result.score >= 5
        /\ call.trend \in {"ranging", "undefined"} =>
               result.signal = "NO_TRADE"
        /\ (call.trend \in {"uptrend", "downtrend"} /\ result.score >= 5) =>
               /\ result.signal = "ENTRY"
               /\ result.direction =
                      (IF call.trend = "uptrend" THEN "LONG" ELSE "SHORT")

\* C1 witness: an uptrend whose evidence adds up to exactly the threshold
\* (trend 2 + sweep 3) was answered with ENTRY LONG.
C1_Witness ==
    /\ SignalReturned
    /\ call.trend = "uptrend"
    /\ result.score = 5
    /\ result.signal = "ENTRY"
    /\ result.direction = "LONG"

----------------------------------------------------------------------------
(* tools/analysis.py: detect_market_structure                              *)
(* A call is the two lists find_swing_points returned, as prices in candle *)
(* order.                                                                  *)

StructureSwingLists ==
    LET prices == {1, 2, 3}
    IN  {<<>>} \cup { <<a>> : a \in prices }
        \cup { <<a, b>> : a \in prices, b \in prices }
        \cup { <<a, b, c>> : a \in prices, b \in prices, c \in prices }

StructureCalls ==
    [ fn : {"detect_market_structure", "detect_market_bias"},
      swing_highs : StructureSwingLists,
      swing_lows : StructureSwingLists ]

\* "Check last 2 swing highs": HH if the last is higher, else LH.
HighTag(swing_highs) ==
    LET n == Len(swing_highs)
    IN  IF swing_highs[n] > swing_highs[n - 1] THEN "HH" ELSE "LH"

\* "Check last 2 swing lows": HL if the last is higher, else LL.
LowTag(swing_lows) ==
    LET n == Len(swing_lows)
    IN  IF swing_lows[n] > swing_lows[n - 1] THEN "HL" ELSE "LL"

StructureTrendMutant(structure) ==
    IF structure[1] = "HH" THEN "uptrend"
    ELSE IF structure[1] = "LH" /\ structure[2] = "LL" THEN "downtrend"
    ELSE "ranging"

\* "Determine trend"
StructureTrend(structure) ==
    IF structure[1] = "HH" /\ structure[2] = "HL" THEN "uptrend"
    ELSE IF structure[1] = "LH" /\ structure[2] = "LL" THEN "downtrend"
    ELSE "ranging"

detect_market_structure(c) ==
    IF Len(c.swing_highs) < 2 \/ Len(c.swing_lows) < 2
    THEN [status |-> "success", trend |-> "undefined", structure |-> <<>>]
    ELSE LET structure == <<HighTag(c.swing_highs), LowTag(c.swing_lows)>>
         IN  [status |-> "success",
              trend |-> StructureTrend(structure),
              structure |-> structure]

DetectMarketStructure ==
    /\ call.fn = "detect_market_structure"
    /\ result = Pending
    /\ result' = detect_market_structure(call)
    /\ UNCHANGED <<call, tracker_vars>>

\* detect_market_bias: strict comparisons of the last two highs and lows.
detect_market_bias(swing_highs, swing_lows) ==
    IF Len(swing_highs) < 2 \/ Len(swing_lows) < 2 THEN "neutral"
    ELSE LET nh == Len(swing_highs)
             nl == Len(swing_lows)
             hh == swing_highs[nh] > swing_highs[nh - 1]
             hl == swing_lows[nl] > swing_lows[nl - 1]
             lh == swing_highs[nh] < swing_highs[nh - 1]
             ll == swing_lows[nl] < swing_lows[nl - 1]
         IN  IF hh /\ hl THEN "bullish"
             ELSE IF lh /\ ll THEN "bearish"
             ELSE "neutral"

DetectMarketBias ==
    /\ call.fn = "detect_market_bias"
    /\ result = Pending
    /\ result' = [ status |-> "success",
                   bias |-> detect_market_bias(call.swing_highs,
                                               call.swing_lows) ]
    /\ UNCHANGED <<call, tracker_vars>>

InitStructure == call \in StructureCalls /\ result = Pending /\ TrackerIdle

NextStructure == DetectMarketStructure \/ DetectMarketBias

SpecStructure == InitStructure /\ [][NextStructure]_vars

\* detect_market_structure has returned.
StructureReturned ==
    /\ call.fn = "detect_market_structure"
    /\ result # Pending

\* C17: detect_market_structure returns trend undefined when there are
\* fewer than 2 swing highs or fewer than 2 swing lows; otherwise the tags
\* compare the last two swing highs and the last two swing lows, and the
\* trend is uptrend iff the tags are [HH, HL], downtrend iff they are
\* [LH, LL], and ranging for [HH, LL] and [LH, HL].
C17_StructureTruthTable ==
    StructureReturned =>
        LET nh == Len(call.swing_highs)
            nl == Len(call.swing_lows)
        IN  IF nh < 2 \/ nl < 2 THEN result.trend = "undefined"
            ELSE /\ result.structure \in
                        {<<"HH", "HL">>, <<"HH", "LL">>,
                         <<"LH", "HL">>, <<"LH", "LL">>}
                 /\ call.swing_highs[nh] > call.swing_highs[nh - 1]
                        => result.structure[1] = "HH"
                 /\ call.swing_highs[nh] < call.swing_highs[nh - 1]
                        => result.structure[1] = "LH"
                 /\ call.swing_lows[nl] > call.swing_lows[nl - 1]
                        => result.structure[2] = "HL"
                 /\ call.swing_lows[nl] < call.swing_lows[nl - 1]
                        => result.structure[2] = "LL"
                 /\ result.trend = "uptrend"
                        <=> result.structure = <<"HH", "HL">>
                 /\ result.trend = "downtrend"
                        <=> result.structure = <<"LH", "LL">>
                 /\ result.trend = "ranging"
                        <=> result.structure \in
                                {<<"HH", "LL">>, <<"LH", "HL">>}

\* C17 witness: a higher high with a lower low was classified as ranging.
C17_Witness ==
    /\ StructureReturned
    /\ call.swing_highs = <<3, 1, 2>>
    /\ call.swing_lows = <<1, 3, 2>>
    /\ result.structure = <<"HH", "LL">>
    /\ result.trend = "ranging"

----------------------------------------------------------------------------
(* tools/position.py: select_leverage                                      *)

\* sl_distance_pct in hundredths of a percent (50 is 0.5%).
SlDistances == {-10, 0, 49, 50, 51, 100, 101, 150, 151, 200, 201, 1000}

\* The volatility strings callers pass, known and unknown, in any case.
Volatilities == {"low", "normal", "high", "HIGH", "Low", "extreme", ""}

\* volatility.lower()
Lower(v) ==
    CASE v = "HIGH" -> "high"
      [] v = "Low" -> "low"
      [] OTHER -> v

LeverageCalls ==
    [ fn : {"select_leverage"},
      sl_distance_pct : SlDistances,
      volatility : Volatilities ]

BaseLeverageMutant(sl_distance_pct) ==
    IF sl_distance_pct < 50 THEN 30
    ELSE IF sl_distance_pct < 100 THEN 25
    ELSE IF sl_distance_pct < 150 THEN 20
    ELSE IF sl_distance_pct < 200 THEN 15
    ELSE 10

\* "Base leverage calculation based on SL distance".
BaseLeverage(sl_distance_pct) ==
    IF sl_distance_pct <= 50 THEN 30
    ELSE IF sl_distance_pct <= 100 THEN 25
    ELSE IF sl_distance_pct <= 150 THEN 20
    ELSE IF sl_distance_pct <= 200 THEN 15
    ELSE 10

\* volatility_multiplier in tenths: {"low": 1.2, "normal": 1.0, "high": 0.7},
\* 1.0 for every other string.
VolatilityMultiplier(volatility) ==
    CASE Lower(volatility) = "low" -> 12
      [] Lower(volatility) = "normal" -> 10
      [] Lower(volatility) = "high" -> 7
      [] OTHER -> 10

ClampSelectorMutant(lev) == Max(10, lev)

\* "Clamp to range [10, 30]".
ClampSelector(lev) == Max(10, Min(30, lev))

select_leverage(c) ==
    LET base_leverage == BaseLeverage(c.sl_distance_pct)
        recommended_leverage ==
            Trunc(base_leverage * VolatilityMultiplier(c.volatility), 10)
    IN  [status |-> "success",
         recommended_leverage |-> ClampSelector(recommended_leverage)]

SelectLeverage ==
    /\ call.fn = "select_leverage"
    /\ result = Pending
    /\ result' = select_leverage(call)
    /\ UNCHANGED <<call, tracker_vars>>

----------------------------------------------------------------------------
(* tools/position.py: calculate_position_dynamic                           *)

\* Account balances in USDT.
Balances == {0, 1, 100}

\* Entry prices.
EntryPrices == {0, 100, 1000}

\* Stop-loss prices: 10%, 1% and 0.1% away from the entries, on both sides.
StopPrices == {0, 90, 99, 100, 110, 999, 1000, 1001, 1010}

\* Take-profit prices on both sides of the entries.
TargetPrices == {0, 95, 105, 990, 1020}

\* risk_percent, any sign.
RiskPercents == {-5, 0, 10, 100}

\* Symbols: the five of the min_qty table, one in lower case, one unknown.
Symbols == {"BTCUSDT", "ETHUSDT", "SOLUSDT", "XRPUSDT", "CRVUSDT",
            "btcusdt", "DOGEUSDT"}

\* symbol.upper()
Upper(symbol) == IF symbol = "btcusdt" THEN "BTCUSDT" ELSE symbol

DynamicCalls ==
    [ fn : {"calculate_position_dynamic"},
      balance : Balances,
      entry_price : EntryPrices,
      stop_loss : StopPrices,
      take_profit : TargetPrices,
      risk_percent : RiskPercents,
      symbol : Symbols ]

\* min_qty in thousandths: the table of calculate_position_dynamic, 0.01 for
\* every symbol not in it.
MinQty(symbol) ==
    CASE Upper(symbol) = "BTCUSDT" -> 1
      [] Upper(symbol) = "ETHUSDT" -> 10
      [] Upper(symbol) = "SOLUSDT" -> 100
      [] Upper(symbol) = "XRPUSDT" -> 10000
      [] Upper(symbol) = "CRVUSDT" -> 10000
      [] OTHER -> 10

MinQtyForPartialMutant(symbol) == MinQty(symbol)

\* "min_qty_for_partial = min_qty * 2", in thousandths.
MinQtyForPartial(symbol) == MinQty(symbol) * 2

\* "max(10, min(50, int(min_leverage) + 5))".
ClampDynamic(lev) == Max(10, Min(50, lev))

\* The input validation and the TP direction check: the error returns.
DynamicRejects(c) ==
    \/ c.balance <= 0 \/ c.entry_price <= 0
    \/ c.stop_loss <= 0 \/ c.take_profit <= 0
    \/ c.entry_price > c.stop_loss /\ c.take_profit <= c.entry_price
    \/ c.entry_price <= c.stop_loss /\ c.take_profit >= c.entry_price

\* entry == stop passes validation as SHORT with sl_distance_pct 0, and
\* "risk_amount / (sl_distance_pct / 100)" raises ZeroDivisionError.
DynamicRaises(c) == c.entry_price = c.stop_loss

calculate_position_dynamic(c) ==
    IF DynamicRejects(c) \/ DynamicRaises(c) THEN [status |-> "error"]
    ELSE
    LET direction == IF c.entry_price > c.stop_loss THEN "LONG" ELSE "SHORT"
        sl_distance == Abs(c.entry_price - c.stop_loss)
        \* position_size_usd = risk_amount / (sl_distance_pct / 100)
        \*                   = usd_n / usd_d dollars
        usd_n == c.balance * c.risk_percent * c.entry_price
        usd_d == 100 * sl_distance
        \* min_leverage = position_size_usd / (balance * 0.5)
        min_leverage == Trunc(2 * usd_n, usd_d * c.balance)
        recommended_leverage == ClampDynamic(min_leverage + 5)
        \* margin_required = position_size_usd / recommended_leverage, in cents
        margin_required == RoundDiv(usd_n * 100, usd_d * recommended_leverage)
        \* quantity = position_size_usd / entry_price
        \*          = balance * risk_percent / (100 * sl_distance)
        floored == c.balance * c.risk_percent * 10
                       < MinQtyForPartial(c.symbol) * sl_distance
        \* round(quantity, 6), in millionths
        quantity == IF floored THEN MinQtyForPartial(c.symbol) * 1000
                    ELSE RoundDiv(c.balance * c.risk_percent * 10000,
                                  sl_distance)
        \* round(position_size_usd, 2), in cents
        position_size_usd ==
            IF floored
            THEN RoundDiv(MinQtyForPartial(c.symbol) * c.entry_price, 10)
            ELSE RoundDiv(usd_n * 100, usd_d)
    IN  [status |-> "success",
         direction |-> direction,
         floored |-> floored,
         quantity |-> quantity,
         position_size_usd |-> position_size_usd,
         leverage |-> recommended_leverage,
         margin_required |-> margin_required]

CalculatePositionDynamic ==
    /\ call.fn = "calculate_position_dynamic"
    /\ result = Pending
    /\ result' = calculate_position_dynamic(call)
    /\ UNCHANGED <<call, tracker_vars>>

----------------------------------------------------------------------------
(* tools/position.py: calculate_position                                   *)
(* The returned floats are not rounded; the model returns them as exact    *)
(* fractions n/d in lowest terms, d > 0.                                   *)

RECURSIVE Gcd(_, _)
Gcd(a, b) == IF b = 0 THEN a ELSE Gcd(b, a % b)

\* The value n/d (d # 0) in lowest terms.
Frac(n, d) ==
    LET g == Gcd(Abs(n), Abs(d))
        sign == IF d < 0 THEN -1 ELSE 1
    IN  [n |-> sign * (n \div g), d |-> sign * (d \div g)]

\* x * y, cancelling common factors before multiplying
FracMul(x, y) ==
    LET g1 == Gcd(Abs(x.n), Abs(y.d))
        g2 == Gcd(Abs(y.n), Abs(x.d))
    IN  Frac((x.n \div g1) * (y.n \div g2), (x.d \div g2) * (y.d \div g1))

\* x / y, for y # 0
FracDiv(x, y) == FracMul(x, [n |-> y.d, d |-> y.n])

\* x < y
FracLess(x, y) == x.n * y.d < y.n * x.d

PositionBalances == {-1, 0, 100}

PositionEntries == {0, 100, 95000}

PositionStops == {0, 90, 99, 100, 110, 94050, 95000}

PositionRiskPercents == {-5, 0, 5}

PositionLeverages == {-10, 0, 1, 20}

PositionCalls ==
    [ fn : {"calculate_position"},
      balance : PositionBalances,
      entry_price : PositionEntries,
      stop_loss : PositionStops,
      risk_percent : PositionRiskPercents,
      leverage : PositionLeverages ]

PositionRejectsMutant(c) ==
    \/ c.balance <= 0
    \/ c.entry_price <= 0
    \/ c.entry_price = c.stop_loss

\* The three validation returns: balance, prices, "cannot be the same".
PositionRejects(c) ==
    \/ c.balance <= 0
    \/ c.entry_price <= 0 \/ c.stop_loss <= 0
    \/ c.entry_price = c.stop_loss

\* "risk_amount / (sl_distance_pct * leverage)" raises ZeroDivisionError for
\* leverage 0; the except branch returns status error.
PositionRaises(c) == c.leverage = 0

PositionMarginMutant(risk_amount, sl_distance_pct, leverage) ==
    FracDiv(risk_amount, sl_distance_pct)

\* position_margin = risk_amount / (sl_distance_pct * leverage)
PositionMargin(risk_amount, sl_distance_pct, leverage) ==
    FracDiv(risk_amount, FracMul(sl_distance_pct, Frac(leverage, 1)))

\* The warnings appended to the result.
PositionWarnings(c, position_margin, sl_distance_pct) ==
    {w \in {"below minimum", "exceeds 50%", "very wide", "too tight"} :
        \/ w = "below minimum" /\ FracLess(position_margin, Frac(5, 1))
        \/ w = "exceeds 50%" /\ FracLess(Frac(c.balance, 2), position_margin)
        \/ w = "very wide" /\ FracLess(Frac(5, 100), sl_distance_pct)
        \/ w = "too tight" /\ FracLess(sl_distance_pct, Frac(2, 1000))}

calculate_position(c) ==
    IF PositionRejects(c) \/ PositionRaises(c) THEN [status |-> "error"]
    ELSE
    LET direction == IF c.entry_price > c.stop_loss THEN "LONG" ELSE "SHORT"
        sl_distance == Abs(c.entry_price - c.stop_loss)
        sl_distance_pct == Frac(sl_distance, c.entry_price)
        risk_amount == FracMul(Frac(c.balance, 1), Frac(c.risk_percent, 100))
        position_margin ==
            PositionMargin(risk_amount, sl_distance_pct, c.leverage)
        real_position == FracMul(position_margin, Frac(c.leverage, 1))
        quantity == FracDiv(real_position, Frac(c.entry_price, 1))
    IN  [status |-> "success",
         direction |-> direction,
         sl_distance_pct |-> FracMul(sl_distance_pct, Frac(100, 1)),
         risk_amount |-> risk_amount,
         leverage |-> c.leverage,
         margin_required |-> position_margin,
         position_size |-> real_position,
         quantity |-> quantity,
         warnings |-> PositionWarnings(c, position_margin, sl_distance_pct)]

CalculatePosition ==
    /\ call.fn = "calculate_position"
    /\ result = Pending
    /\ result' = calculate_position(call)
    /\ UNCHANGED <<call, tracker_vars>>

InitSizer ==
    /\ call \in LeverageCalls \cup DynamicCalls \cup PositionCalls
    /\ result = Pending
    /\ TrackerIdle

NextSizer == SelectLeverage \/ CalculatePositionDynamic \/ CalculatePosition

SpecSizer == InitSizer /\ [][NextSizer]_vars

\* calculate_position_dynamic has returned status success.
DynamicReturned ==
    /\ call.fn = "calculate_position_dynamic"
    /\ result.status = "success"

\* C2: every success result of calculate_position_dynamic reports a quantity
\* of at least twice the symbol's minimum tradable size (BTCUSDT 0.001,
\* ETHUSDT 0.01, SOLUSDT 0.1, XRPUSDT 10, CRVUSDT 10, otherwise 0.01).
\* Quantities are in millionths.
C2_QuantityAtLeastTwiceMin ==
    DynamicReturned =>
        result.quantity >=
            2 * (CASE call.symbol \in {"BTCUSDT", "btcusdt"} -> 1000
                   [] call.symbol = "ETHUSDT" -> 10000
                   [] call.symbol = "SOLUSDT" -> 100000
                   [] call.symbol \in {"XRPUSDT", "CRVUSDT"} -> 10000000
                   [] OTHER -> 10000)

\* C2 witness: a success result whose risk-based quantity was below the
\* floor and was raised to it.
C2_Witness ==
    /\ DynamicReturned
    /\ result.floored
    /\ call.symbol = "XRPUSDT"
    /\ result.quantity = 20000000

\* C3: select_leverage returns recommended_leverage in [10,30] for every
\* sl_distance_pct and volatility string, and calculate_position_dynamic
\* returns leverage in [10,50] on every success.
C3_LeverageClamped ==
    /\ (call.fn = "select_leverage" /\ result.status = "success") =>
           (result.recommended_leverage >= 10 /\ result.recommended_leverage <= 30)
    /\ DynamicReturned => (result.leverage >= 10 /\ result.leverage <= 50)

\* C3 witness: a dynamic sizing whose solved leverage exceeded the range and
\* was clamped to 50.
C3_Witness ==
    /\ DynamicReturned
    /\ call.entry_price = 1000 /\ call.stop_loss = 999
    /\ call.risk_percent = 10
    /\ result.leverage = 50

\* C4 (as claimed): every success result of calculate_position_dynamic has
\* margin_required <= 0.5 * balance.  Margin is in cents.
C4_MarginAtMostHalfBalance ==
    DynamicReturned => result.margin_required <= 50 * call.balance

\* C4 witness of the failing case: the leverage is capped at 50 and the
\* reported margin exceeds half the balance.
C4_MarginExceedsHalf ==
    /\ DynamicReturned
    /\ result.leverage = 50
    /\ result.margin_required > 50 * call.balance

----------------------------------------------------------------------------
(* tools/position.py: manage_position_v2                                   *)
(* Prices are in thousandths; a returned round(x, 2) is in hundredths.     *)
(* The price sets hold no value that lies exactly halfway between two      *)
(* hundredths, where round() depends on the float's binary expansion.      *)

ManageActions == {"check_rr", "check_tp", "get_trail_sl", "check_exit", "close"}

\* direction as passed: None, or a string of any case; "BUY" is no direction
\* the tool names but is accepted.
Directions == {"LONG", "SHORT", "long", "BUY", "None"}

\* direction.upper() if direction else None
UpperDirection(d) == IF d = "long" THEN "LONG" ELSE d

ManageEntries == {0, 100000}

ManagePrices == {0, 90000, 95000, 100000, 104999, 105000, 110000, 110009}

ManageStops == {0, 94996, 95000, 95004, 100000, 104996, 105000, 105004}

ManageTargets == {0, 110000}

ManageCalls ==
    [ fn : {"manage_position_v2"},
      action : ManageActions,
      entry_price : ManageEntries,
      current_price : ManagePrices,
      stop_loss : ManageStops,
      take_profit : ManageTargets,
      direction : Directions,
      partial_closed : BOOLEAN ]

\* all([...]): every listed argument is truthy (not None, not 0).
AllGiven(c, with_stop, with_target) ==
    /\ c.entry_price # 0
    /\ c.current_price # 0
    /\ with_stop => c.stop_loss # 0
    /\ with_target => c.take_profit # 0
    /\ c.direction # "None"

\* check_rr: sl_distance and current_profit by direction.
RrDistance(c) ==
    IF UpperDirection(c.direction) = "LONG"
    THEN c.entry_price - c.stop_loss
    ELSE c.stop_loss - c.entry_price

RrProfit(c) ==
    IF UpperDirection(c.direction) = "LONG"
    THEN c.current_price - c.entry_price
    ELSE c.entry_price - c.current_price

RrReachedMutant(c) == RrDistance(c) > 0 /\ RrProfit(c) > RrDistance(c)

\* "rr_achieved >= 1.0" with
\* rr_achieved = current_profit / sl_distance if sl_distance > 0 else 0.
RrReached(c) == RrDistance(c) > 0 /\ RrProfit(c) >= RrDistance(c)

\* round(rr_achieved, 2), in hundredths.
RrAchieved(c) ==
    IF RrDistance(c) > 0 THEN RoundDiv(RrProfit(c) * 100, RrDistance(c)) ELSE 0

check_rr(c) ==
    IF ~AllGiven(c, TRUE, FALSE) THEN [status |-> "error"]
    ELSE IF RrReached(c) /\ ~c.partial_closed
    THEN [status |-> "success", action |-> "PARTIAL_CLOSE",
          rr_achieved |-> RrAchieved(c), close_pct |-> 50,
          new_sl |-> c.entry_price]
    ELSE [status |-> "success", action |-> "HOLD",
          rr_achieved |-> RrAchieved(c)]

check_tp(c) ==
    IF ~AllGiven(c, FALSE, TRUE) THEN [status |-> "error"]
    ELSE LET tp_reached ==
                 IF UpperDirection(c.direction) = "LONG"
                 THEN c.current_price >= c.take_profit
                 ELSE c.current_price <= c.take_profit
         IN  IF tp_reached
             THEN [status |-> "success", action |-> "CLOSE_ALL",
                   tp_reached |-> TRUE]
             ELSE [status |-> "success", action |-> "HOLD",
                   tp_reached |-> FALSE]

\* new_sl before rounding, in two-thousandths (the 0.5 * unrealized term).
TrailSl(c) ==
    IF UpperDirection(c.direction) = "LONG"
    THEN LET unrealized == c.current_price - c.entry_price
         IN  IF unrealized > 0
             THEN Max(2 * c.entry_price + unrealized, 2 * c.stop_loss)
             ELSE 2 * c.stop_loss
    ELSE LET unrealized == c.entry_price - c.current_price
         IN  IF unrealized > 0
             THEN Min(2 * c.entry_price - unrealized, 2 * c.stop_loss)
             ELSE 2 * c.stop_loss

\* "new_sl": round(new_sl, 2), in hundredths.
ReturnedTrailSl(c) == RoundDiv(TrailSl(c), 20)

get_trail_sl(c) ==
    IF ~AllGiven(c, TRUE, FALSE) THEN [status |-> "error"]
    ELSE [status |-> "success",
          action |-> IF TrailSl(c) # 2 * c.stop_loss THEN "TRAIL_SL" ELSE "HOLD",
          current_sl |-> c.stop_loss,
          new_sl |-> ReturnedTrailSl(c)]

check_exit(c) ==
    IF ~AllGiven(c, TRUE, FALSE) THEN [status |-> "error"]
    ELSE LET sl_hit ==
                 IF UpperDirection(c.direction) = "LONG"
                 THEN c.current_price <= c.stop_loss
                 ELSE c.current_price >= c.stop_loss
         IN  IF sl_hit
             THEN [status |-> "success", action |-> "EXIT", reason |-> "SL_HIT"]
             ELSE [status |-> "success", action |-> "HOLD"]

manage_position_v2(c) ==
    CASE c.action = "check_rr" -> check_rr(c)
      [] c.action = "check_tp" -> check_tp(c)
      [] c.action = "get_trail_sl" -> get_trail_sl(c)
      [] c.action = "check_exit" -> check_exit(c)
      [] OTHER -> [status |-> "error"]

ManagePositionV2 ==
    /\ call.fn = "manage_position_v2"
    /\ result = Pending
    /\ result' = manage_position_v2(call)
    /\ UNCHANGED <<call, tracker_vars>>

InitManage == call \in ManageCalls /\ result = Pending /\ TrackerIdle

NextManage == ManagePositionV2

SpecManage == InitManage /\ [][NextManage]_vars

\* manage_position_v2 has answered the given action for a LONG or SHORT
\* position with status success.
ManageReturned(action) ==
    /\ call.fn = "manage_position_v2"
    /\ call.action = action
    /\ call.direction \in {"LONG", "SHORT", "long"}
    /\ result.status = "success"

\* The unrealized profit of the position in the call.
ClaimProfit ==
    IF call.direction \in {"LONG", "long"}
    THEN call.current_price - call.entry_price
    ELSE call.entry_price - call.current_price

\* C5 (as claimed): check_rr returns PARTIAL_CLOSE exactly when the unrealized
\* profit divided by the entry-to-stop distance is >= 1.0 and partial_closed
\* is false, and HOLD otherwise.
C5_PartialCloseIffRatio ==
    ManageReturned("check_rr") =>
        LET distance == Abs(call.entry_price - call.stop_loss)
        IN  (result.action = "PARTIAL_CLOSE") <=>
                /\ distance > 0
                /\ ClaimProfit >= distance
                /\ ~call.partial_closed

\* C5 (amended): check_rr returns PARTIAL_CLOSE (close_pct 50, new_sl equal to
\* entry_price) exactly when the stop is on the losing side of the entry
\* (below it for LONG, above it for SHORT), the unrealized profit is at least
\* the entry-to-stop distance and partial_closed is false; with the stop at or
\* beyond the entry, and whenever partial_closed is true, it returns HOLD.
C5_PartialCloseIffProtectiveStop ==
    ManageReturned("check_rr") =>
        LET long == call.direction \in {"LONG", "long"}
            protective == IF long THEN call.stop_loss < call.entry_price
                          ELSE call.stop_loss > call.entry_price
            distance == Abs(call.entry_price - call.stop_loss)
            partial == /\ protective
                       /\ ClaimProfit >= distance
                       /\ ~call.partial_closed
        IN  /\ result.action \in {"PARTIAL_CLOSE", "HOLD"}
            /\ (result.action = "PARTIAL_CLOSE") <=> partial
            /\ result.action = "PARTIAL_CLOSE" =>
                   (result.close_pct = 50 /\ result.new_sl = call.entry_price)
            /\ call.partial_closed => result.action = "HOLD"

\* C5 witness: a LONG exactly at 1:1 (entry 100, stop 95, price 105), not yet
\* partially closed, was answered with PARTIAL_CLOSE.
C5_Witness ==
    /\ ManageReturned("check_rr")
    /\ call.direction = "LONG"
    /\ call.entry_price = 100000 /\ call.stop_loss = 95000
    /\ call.current_price = 105000
    /\ ~call.partial_closed
    /\ result.action = "PARTIAL_CLOSE"

\* C6 (as claimed): get_trail_sl never loosens the stop: the returned new_sl
\* is >= stop_loss for LONG and <= stop_loss for SHORT, the 2-decimal rounding
\* included.  new_sl is in hundredths, stop_loss in thousandths.
C6_TrailNeverLoosens ==
    ManageReturned("get_trail_sl") =>
        IF call.direction \in {"LONG", "long"}
        THEN result.new_sl * 10 >= call.stop_loss
        ELSE result.new_sl * 10 <= call.stop_loss

\* C6 failing case: a LONG that is not in profit gets back a stop below the
\* one it supplied.
C6_LoosenedLong ==
    /\ ManageReturned("get_trail_sl")
    /\ call.direction = "LONG"
    /\ call.current_price <= call.entry_price
    /\ result.new_sl * 10 < call.stop_loss

----------------------------------------------------------------------------
(* agent3.py: LiquiditySweepAgent, the partial-close tracker of run_cycle   *)
(* Sizes are in thousandths of a contract.  The agent trades in one-way     *)
(* mode (positionIdx 0), so the open-position list holds at most one        *)
(* position per symbol and is modelled as the dict symbol -> size that      *)
(* detect_partial_close_from_size builds from it.                           *)

\* Two of TRADING_COINS.
TrackedSymbols == {"BTCUSDT", "ETHUSDT"}

\* Position sizes: 0 (no size reported), and sizes whose ratios include
\* 0.3, 0.4, 0.5, 0.55, 0.6 and 0.8.
Sizes == {0, 3, 4, 6, 8, 10, 11, 20}

\* The number of cycles the model follows.
MaxCycles == 4

\* The open-position lists a cycle can be handed.
PositionLists ==
    UNION { [held -> Sizes] : held \in SUBSET TrackedSymbols }

SyncMutant(flags, positions) ==
    [s \in DOMAIN flags \ DOMAIN positions |-> TRUE]

\* sync_partial_closed_with_positions: clear_partial_closed for every flagged
\* symbol that is not in the list.
sync_partial_closed_with_positions(flags, positions) ==
    [s \in DOMAIN flags \cap DOMAIN positions |-> flags[s]]

PartialCloseRatioMutant(last_size, current_size) ==
    /\ last_size > 0
    /\ current_size > 0
    /\ 10 * current_size <= 6 * last_size

\* "if last_size > 0 and current_size > 0" and
\* "if 0.4 <= reduction_ratio <= 0.6" with reduction_ratio = current / last.
PartialCloseRatio(last_size, current_size) ==
    /\ last_size > 0
    /\ current_size > 0
    /\ 4 * last_size <= 10 * current_size
    /\ 10 * current_size <= 6 * last_size

\* The symbols detect_partial_close_from_size marks: in the list, with a last
\* known size, not yet flagged, and shrunk to 40-60%.
DetectedPartialCloses(flags, sizes, positions) ==
    { s \in DOMAIN positions :
        /\ s \in DOMAIN sizes
        /\ s \notin DOMAIN flags
        /\ PartialCloseRatio(sizes[s], positions[s]) }

\* mark_partial_closed for each detected symbol.
mark_partial_closed(flags, symbols) ==
    [s \in DOMAIN flags \cup symbols |-> TRUE]

\* _save_position_sizes: the dict is replaced after the file was written; an
\* exception from mkdir / open / json.dump is caught and leaves it as it was.
save_position_sizes(sizes, current_sizes, written) ==
    IF written THEN current_sizes ELSE sizes

\* run_cycle up to the size detection: trade_count += 1, then
\* sync_partial_closed_with_positions and detect_partial_close_from_size on
\* state['open_positions'].
CycleCore(positions, written, text) ==
    LET synced == sync_partial_closed_with_positions(partial_closed, positions)
        detected == DetectedPartialCloses(synced, last_position_sizes, positions)
    IN  /\ trade_count < MaxCycles
        /\ trade_count' = trade_count + 1
        /\ partial_closed' = mark_partial_closed(synced, detected)
        /\ last_position_sizes' =
               save_position_sizes(last_position_sizes, positions, written)
        /\ open_positions' = positions
        /\ positions_text' = text
        /\ marked' = [s \in detected |->
                         <<last_position_sizes[s], positions[s]>>]

Cycle(positions, written, text) ==
    /\ CycleCore(positions, written, text)
    /\ UNCHANGED <<call, result, exchange>>

\* A cycle whose get_current_state returned a list of positions.
RunCycle ==
    \E positions \in PositionLists, written \in BOOLEAN :
        Cycle(positions, written, "Positions")

\* A cycle whose get_current_state raised and fell back to its error result,
\* positions_text "Error" and open_positions == [].
RunCycleFetchFailed ==
    \E written \in BOOLEAN : Cycle(EmptyMap, written, "Error")

InitTracker ==
    /\ call = [fn |-> "run_cycle"]
    /\ result = Pending
    /\ TrackerIdle

NextTracker == RunCycle \/ RunCycleFetchFailed

SpecTracker == InitTracker /\ [][NextTracker]_vars

Spec == SpecTracker

\* The cycles of run_cycle against the positions of one symbol at the
\* exchange: positions are opened, closed and halved between the cycles, and
\* each cycle's workflow asks manage_position_v2 check_rr once per position.
LifecycleSymbols == {"BTCUSDT"}

\* Sizes a position is opened with; 48 is half of 96.
OpenSizes == {32, 48, 96}

\* A position just opened.  seen_size (the size a cycle last saw of this
\* position, 0 before the first), shrunk (a cycle saw it at 40-60% of the
\* size the cycle before had seen) and flagged (it carried the flag after
\* the last cycle that saw it) are history; partial_closes counts the
\* PARTIAL_CLOSE answers check_rr gave for it; managed says the workflow of
\* the current cycle is done with it.
NewPosition(size) ==
    [ size |-> size, seen_size |-> 0, shrunk |-> FALSE, flagged |-> FALSE,
      partial_closes |-> 0, managed |-> TRUE ]

OpenPosition ==
    \E s \in LifecycleSymbols \ DOMAIN exchange, size \in OpenSizes :
        /\ exchange' = [ x \in DOMAIN exchange \cup {s} |->
                            IF x = s THEN NewPosition(size) ELSE exchange[x] ]
        /\ UNCHANGED <<call, result, trade_count, partial_closed,
                       last_position_sizes, open_positions, positions_text,
                       marked>>

\* The position is closed in full (stop loss, take profit or by hand).
ClosePosition ==
    \E s \in DOMAIN exchange :
        /\ exchange' = [ x \in DOMAIN exchange \ {s} |-> exchange[x] ]
        /\ UNCHANGED <<call, result, trade_count, partial_closed,
                       last_position_sizes, open_positions, positions_text,
                       marked>>

\* state['open_positions'] of a successful fetch: bybit_v5 get_positions
\* lists the positions with size > 0.
ExchangeSizes == [ s \in DOMAIN exchange |-> exchange[s].size ]

\* A cycle whose get_current_state returned the positions of the exchange.
RunCycleOnExchange ==
    \E written \in BOOLEAN :
        /\ CycleCore(ExchangeSizes, written, "Positions")
        /\ exchange' =
              [ s \in DOMAIN exchange |->
                  [ exchange[s] EXCEPT
                      !.seen_size = exchange[s].size,
                      !.shrunk = \/ exchange[s].shrunk
                                 \/ PartialCloseRatio(exchange[s].seen_size,
                                                      exchange[s].size),
                      !.flagged = s \in DOMAIN partial_closed',
                      !.managed = FALSE ] ]
        /\ UNCHANGED <<call, result>>

\* The prices the workflow reads for a LONG from 100000 with stop 95000:
\* below and at 1:1.
LifecyclePrices == {100000, 105000}

\* Step 1 of the workflow for one position of the cycle's list: check_rr
\* with the tracked flag; on PARTIAL_CLOSE half of the position is closed.
ManagePosition ==
    \E s \in DOMAIN exchange \cap DOMAIN open_positions,
       current_price \in LifecyclePrices :
        LET c == [ fn |-> "manage_position_v2", action |-> "check_rr",
                   entry_price |-> 100000, current_price |-> current_price,
                   stop_loss |-> 95000, take_profit |-> 0,
                   direction |-> "LONG",
                   partial_closed |-> s \in DOMAIN partial_closed ]
            answer == manage_position_v2(c)
            closing == answer.action = "PARTIAL_CLOSE"
        IN  /\ ~exchange[s].managed
            /\ exchange[s].size % 2 = 0
            /\ call' = c
            /\ result' = answer
            /\ exchange' =
                  [ exchange EXCEPT
                      ![s].managed = TRUE,
                      ![s].size = IF closing THEN @ \div 2 ELSE @,
                      ![s].partial_closes = IF closing THEN @ + 1 ELSE @ ]
            /\ UNCHANGED <<trade_count, partial_closed, last_position_sizes,
                           open_positions, positions_text, marked>>

\* The start of run_cycle against a successful bybit_v5 get_positions.
MAX_POSITIONS == 3

AccountSymbols == {"BTCUSDT", "ETHUSDT", "SOLUSDT"}

\* result["result"]["list"] of /v5/position/list: symbol -> size, size 0 for
\* an entry without an open position.
AccountLists ==
    UNION { [listed -> {0, 10, 20}] : listed \in SUBSET AccountSymbols }

StateCalls == [ fn : {"run_cycle.get_current_state"}, list : AccountLists ]

\* tools/bybit_v5.py bybit_v5(action="get_positions") with retCode 0: the
\* entries with size > 0 under the key open_positions.
bybit_v5_get_positions(list) ==
    LET open == { s \in DOMAIN list : list[s] > 0 }
    IN  [ status |-> "success",
          open_positions |-> [ s \in open |-> list[s] ],
          count |-> Cardinality(open),
          content |-> "Positions" ]

\* get_current_state without an exception:
\* open_positions = positions_result.get('positions', []).
get_current_state(positions_result) ==
    LET open_positions_read ==
            IF "positions" \in DOMAIN positions_result
            THEN positions_result.positions ELSE EmptyMap
    IN  [ positions_text |-> positions_result.content,
          open_positions |-> open_positions_read,
          position_count |-> Cardinality(DOMAIN open_positions_read) ]

\* run_cycle up to "can_open_new": the state is fetched, handed to the two
\* tracker calls and counted against MAX_POSITIONS.
RunCycleGetCurrentState ==
    \E written \in BOOLEAN :
        LET positions_result == bybit_v5_get_positions(call.list)
            state == get_current_state(positions_result)
        IN  /\ call.fn = "run_cycle.get_current_state"
            /\ result = Pending
            /\ CycleCore(state.open_positions, written, state.positions_text)
            /\ result' = [ status |-> "success",
                           reported |-> positions_result.open_positions,
                           position_count |-> state.position_count,
                           can_open_new |->
                               state.position_count < MAX_POSITIONS ]
            /\ UNCHANGED <<call, exchange>>

InitState == call \in StateCalls /\ result = Pending /\ TrackerIdle

NextState == RunCycleGetCurrentState

SpecState == InitState /\ [][NextState]_vars

InitLifecycle ==
    /\ call = [fn |-> "run_cycle"]
    /\ result = Pending
    /\ TrackerIdle

NextLifecycle ==
    \/ OpenPosition
    \/ ClosePosition
    \/ RunCycleOnExchange
    \/ RunCycleFetchFailed
    \/ ManagePosition

SpecLifecycle == InitLifecycle /\ [][NextLifecycle]_vars

\* C7: while a symbol stays in the open-position list handed to the tracker,
\* its partial_closed flag never goes from true back to false or away; the
\* flag is removed only in a cycle whose list does not contain the symbol.
C7_FlagKeptWhileOpen ==
    [][ \A s \in TrackedSymbols :
          (s \in DOMAIN partial_closed /\ s \in DOMAIN open_positions') =>
              (s \in DOMAIN partial_closed' /\ partial_closed'[s] = TRUE) ]_vars

\* C7 witness: a symbol flagged in an earlier cycle is still in the list of
\* this cycle and still flagged, while the other symbol's position is gone.
C7_Witness ==
    /\ trade_count >= 3
    /\ "BTCUSDT" \in DOMAIN partial_closed
    /\ "BTCUSDT" \in DOMAIN open_positions
    /\ "BTCUSDT" \notin DOMAIN marked
    /\ "ETHUSDT" \notin DOMAIN open_positions

\* C8: a not-yet-flagged symbol of the list is marked partial_closed exactly
\* when it has a last persisted size, both sizes are positive and
\* current size / last size lies in [0.4, 0.6].
C8_MarkedIffRatio ==
    [][ \A s \in DOMAIN open_positions' :
          s \notin DOMAIN partial_closed =>
              ( s \in DOMAIN partial_closed' <=>
                  /\ s \in DOMAIN last_position_sizes
                  /\ last_position_sizes[s] > 0
                  /\ open_positions'[s] > 0
                  /\ 4 * last_position_sizes[s] <= 10 * open_positions'[s]
                  /\ 10 * open_positions'[s] <= 6 * last_position_sizes[s] ) ]_vars

\* C8 witness: BTCUSDT went from size 20 to 11 (ratio 0.55) and was marked,
\* while ETHUSDT is in the list unflagged.
C8_Witness ==
    /\ "BTCUSDT" \in DOMAIN marked
    /\ marked["BTCUSDT"] = <<20, 11>>
    /\ "BTCUSDT" \in DOMAIN partial_closed
    /\ "ETHUSDT" \in DOMAIN open_positions
    /\ "ETHUSDT" \notin DOMAIN partial_closed

----------------------------------------------------------------------------
(* tools/liquidity.py: find_liquidity_pools                                *)
(* A call is what get_klines_data and find_swing_points gave: whether      *)
(* enough candles came back, the swing highs and swing lows in candle      *)
(* order, and the last close.  distance_pct is in hundredths of a percent  *)
(* (round(x, 2)); no price lies exactly halfway between two hundredths.    *)

\* swings["swing_highs"] prices, in candle order.
SwingHighLists ==
    LET prices == {99990, 100002, 100004, 100020}
    IN  {<<>>} \cup { <<a>> : a \in prices }
        \cup { <<a, b>> : a \in prices, b \in prices }
        \cup { <<a, b, c>> : a \in prices, b \in prices, c \in prices }
        \cup { <<100060, 100050, 100040, 100030, 100020, 100004>> }

\* swings["swing_lows"] prices, in candle order.
SwingLowLists ==
    LET prices == {99980, 99996, 99998, 100010}
    IN  {<<>>} \cup { <<a>> : a \in prices }
        \cup { <<a, b>> : a \in prices, b \in prices }
        \cup { <<a, b, c>> : a \in prices, b \in prices, c \in prices }
        \cup { <<99940, 99950, 99960, 99970, 99980, 99996>> }

\* closes[-1]
PoolPrices == {100000}

PoolCalls ==
    [ fn : {"find_liquidity_pools"},
      enough_klines : BOOLEAN,
      swing_highs : SwingHighLists,
      swing_lows : SwingLowLists,
      price : PoolPrices ]


\* The BSL pool of a swing high: distance_pct is rounded to 2 decimals.
BslPool(price, current_price) ==
    [ price |-> price, type |-> "BSL",
      distance_pct |-> RoundDiv((price - current_price) * 10000, current_price) ]

\* The SSL pool of a swing low.
SslPool(price, current_price) ==
    [ price |-> price, type |-> "SSL",
      distance_pct |-> RoundDiv((current_price - price) * 10000, current_price) ]

\* "if sh['price'] > current_price: buy_side_liquidity.append(pool)"
RECURSIVE BuySideLiquidity(_, _)
BuySideLiquidity(swing_highs, current_price) ==
    IF swing_highs = <<>> THEN <<>>
    ELSE IF Head(swing_highs) > current_price
    THEN <<BslPool(Head(swing_highs), current_price)>>
             \o BuySideLiquidity(Tail(swing_highs), current_price)
    ELSE BuySideLiquidity(Tail(swing_highs), current_price)

\* "if sl['price'] < current_price: sell_side_liquidity.append(pool)"
RECURSIVE SellSideLiquidity(_, _)
SellSideLiquidity(swing_lows, current_price) ==
    IF swing_lows = <<>> THEN <<>>
    ELSE IF Head(swing_lows) < current_price
    THEN <<SslPool(Head(swing_lows), current_price)>>
             \o SellSideLiquidity(Tail(swing_lows), current_price)
    ELSE SellSideLiquidity(Tail(swing_lows), current_price)

\* One step of the stable sort: the pool goes behind every pool whose key is
\* not larger.
RECURSIVE InsertByDistance(_, _)
InsertByDistance(pool, sorted) ==
    IF sorted = <<>> THEN <<pool>>
    ELSE IF Head(sorted).distance_pct <= pool.distance_pct
    THEN <<Head(sorted)>> \o InsertByDistance(pool, Tail(sorted))
    ELSE <<pool>> \o sorted

\* list.sort(key=lambda x: x["distance_pct"]): stable, ascending in the
\* rounded distance.
RECURSIVE SortByDistance(_)
SortByDistance(pools) ==
    IF pools = <<>> THEN <<>>
    ELSE InsertByDistance(pools[Len(pools)],
                          SortByDistance(SubSeq(pools, 1, Len(pools) - 1)))

\* pools[:5]
TopFive(pools) == SubSeq(pools, 1, Min(5, Len(pools)))

\* nearest_bsl / nearest_ssl: the first pool of the sorted list, or None
\* (the empty tuple).
NearestPool(pools) == IF pools = <<>> THEN <<>> ELSE <<pools[1]>>

find_liquidity_pools(c) ==
    IF ~c.enough_klines THEN [status |-> "error"]
    ELSE LET buy_side_liquidity ==
                 SortByDistance(BuySideLiquidity(c.swing_highs, c.price))
             sell_side_liquidity ==
                 SortByDistance(SellSideLiquidity(c.swing_lows, c.price))
         IN  [status |-> "success",
              price |-> c.price,
              bias |-> detect_market_bias(c.swing_highs, c.swing_lows),
              bsl |-> TopFive(buy_side_liquidity),
              ssl |-> TopFive(sell_side_liquidity),
              nearest_bsl |-> NearestPool(buy_side_liquidity),
              nearest_ssl |-> NearestPool(sell_side_liquidity)]

FindLiquidityPools ==
    /\ call.fn = "find_liquidity_pools"
    /\ result = Pending
    /\ result' = find_liquidity_pools(call)
    /\ UNCHANGED <<call, tracker_vars>>

InitPools == call \in PoolCalls /\ result = Pending /\ TrackerIdle

NextPools == FindLiquidityPools

SpecPools == InitPools /\ [][NextPools]_vars

\* find_liquidity_pools has returned status success.
PoolsReturned ==
    /\ call.fn = "find_liquidity_pools"
    /\ result.status = "success"

\* The prices of a list of swing points or pools.
SwingPrices(seq) == { seq[i] : i \in DOMAIN seq }

\* C20: find_liquidity_pools puts only swing highs strictly above the current
\* price into bsl and only swing lows strictly below it into ssl, each list
\* is in ascending order of distance_pct, and nearest_bsl / nearest_ssl is
\* the pool whose price is closest to the current price among all swing
\* points on that side.
C20_PoolsSidedSortedNearest ==
    PoolsReturned =>
        LET above == { p \in SwingPrices(call.swing_highs) : p > call.price }
            below == { p \in SwingPrices(call.swing_lows) : p < call.price }
            ascending(pools) ==
                \A i, j \in DOMAIN pools :
                    i < j => pools[i].distance_pct <= pools[j].distance_pct
        IN  /\ \A i \in DOMAIN result.bsl : result.bsl[i].price \in above
            /\ \A i \in DOMAIN result.ssl : result.ssl[i].price \in below
            /\ ascending(result.bsl)
            /\ ascending(result.ssl)
            /\ (above = {}) <=> (result.nearest_bsl = <<>>)
            /\ (below = {}) <=> (result.nearest_ssl = <<>>)
            /\ above # {} =>
                   \A p \in above : result.nearest_bsl[1].price <= p
            /\ below # {} =>
                   \A p \in below : result.nearest_ssl[1].price >= p

\* C20 failing case: two swing highs above the price share the rounded
\* distance_pct, and the one reported as nearest_bsl is the farther one.
C20_NearestIsFarther ==
    /\ PoolsReturned
    /\ result.nearest_bsl # <<>>
    /\ \E p \in SwingPrices(call.swing_highs) :
           /\ p > call.price
           /\ p < result.nearest_bsl[1].price

----------------------------------------------------------------------------
(* tools/liquidity.py: detect_liquidity_sweep, and the helper of the same  *)
(* name in tools/analysis.py.  A call is whether enough candles came back, *)
(* the swing highs and lows found in the older candles (in candle order)   *)
(* and the most recent candles, oldest first.                              *)

\* lookback_candles: the number of recent candles the tool checks.
LookbackCandles == 5

\* Candles around the swing high 100 and the swing low 90: quiet, wick above
\* 100 closing below it (falling / rising candle), close exactly at 100,
\* close above 100, wick below 90 closing above it, close exactly at 90, a
\* candle with both wicks, and one that closes above 100 and below 104.
CandleShapes ==
    { [open |-> 95, high |-> 97, low |-> 93, close |-> 96],
      [open |-> 99, high |-> 101, low |-> 97, close |-> 98],
      [open |-> 98, high |-> 102, low |-> 97, close |-> 100],
      [open |-> 98, high |-> 103, low |-> 97, close |-> 101],
      [open |-> 91, high |-> 93, low |-> 89, close |-> 92],
      [open |-> 92, high |-> 93, low |-> 88, close |-> 90],
      [open |-> 96, high |-> 101, low |-> 89, close |-> 95],
      [open |-> 101, high |-> 105, low |-> 100, close |-> 102] }

RecentCandles ==
    { <<a, b, a, b, d>> : a \in CandleShapes, b \in CandleShapes,
                          d \in CandleShapes }

SweepSwingHighs ==
    { <<>>, <<100>>, <<104, 100>>, <<100, 110, 111, 112>>,
      <<100, 110, 111, 112, 113, 114>> }

SweepSwingLows ==
    { <<>>, <<90>>, <<86, 90>>, <<90, 80, 79, 78>>,
      <<90, 80, 79, 78, 77, 76>> }

SweepCalls ==
    [ fn : {"detect_liquidity_sweep", "analysis.detect_liquidity_sweep"},
      enough_klines : BOOLEAN,
      swing_highs : SweepSwingHighs,
      swing_lows : SweepSwingLows,
      candles : RecentCandles ]

\* seq[-n:]
LastN(seq, n) == SubSeq(seq, Max(1, Len(seq) - n + 1), Len(seq))

SweptHighMutant(candle, level) ==
    candle.high > level /\ candle.close <= level

\* "Did this candle wick above swing high but close below?"
SweptHigh(candle, level) ==
    candle.high > level /\ candle.close < level

\* "Did this candle wick below swing low but close above?"
SweptLow(candle, level) ==
    candle.low < level /\ candle.close > level

\* "for sh in reversed(swings): if <swept>: ... break": the swept level
\* latest in the list, or none (the empty tuple).
SweptHighLevel(candle, swings) ==
    LET hits == { i \in DOMAIN swings : SweptHigh(candle, swings[i]) }
    IN  IF hits = {} THEN <<>>
        ELSE <<swings[CHOOSE i \in hits : \A j \in hits : j <= i]>>

SweptLowLevel(candle, swings) ==
    LET hits == { i \in DOMAIN swings : SweptLow(candle, swings[i]) }
    IN  IF hits = {} THEN <<>>
        ELSE <<swings[CHOOSE i \in hits : \A j \in hits : j <= i]>>

\* The candle at index -(candle_offset + 1).
CandleAt(candles, candle_offset) == candles[Len(candles) - candle_offset]

ConfirmationRuleMutant(candle_offset) == "own_body"

\* Which comparison decides the confirmation of a sweep found at
\* candle_offset: "if candle_offset == 0" the body of the sweep candle,
\* else with next_idx = idx + 1 "if next_idx < 0" the body of the candle
\* after it, else the last close against the current price.
ConfirmationRule(candle_offset) ==
    LET idx == -(candle_offset + 1)
        next_idx == idx + 1
    IN  IF candle_offset = 0 THEN "own_body"
        ELSE IF next_idx < 0 THEN "next_body"
        ELSE "current_price"

\* The confirmation flag of a sweep of the given type found at candle_offset.
Confirmation(candles, candle_offset, sweep_type) ==
    LET rule == ConfirmationRule(candle_offset)
        current_price == CandleAt(candles, 0).close
        candle == IF rule = "own_body" THEN CandleAt(candles, candle_offset)
                  ELSE CandleAt(candles, candle_offset - 1)
    IN  IF rule = "current_price"
        THEN IF sweep_type = "bearish"
             THEN CandleAt(candles, 0).close < current_price
             ELSE CandleAt(candles, 0).close > current_price
        ELSE IF sweep_type = "bearish" THEN candle.close < candle.open
             ELSE candle.close > candle.open

\* The sweep one candle shows against the last five swing points: bearish
\* is looked for first, bullish only "if not sweep_detected".
CandleSweep(c, candle_offset) ==
    LET candle == CandleAt(c.candles, candle_offset)
        high == SweptHighLevel(candle, LastN(c.swing_highs, 5))
        low == SweptLowLevel(candle, LastN(c.swing_lows, 5))
    IN  IF high # <<>>
        THEN <<[sweep_type |-> "bearish", sweep_level |-> high[1],
                sweep_wick |-> candle.high,
                confirmation |-> Confirmation(c.candles, candle_offset, "bearish")]>>
        ELSE IF low # <<>>
        THEN <<[sweep_type |-> "bullish", sweep_level |-> low[1],
                sweep_wick |-> candle.low,
                confirmation |-> Confirmation(c.candles, candle_offset, "bullish")]>>
        ELSE <<>>

\* "if len(klines) < 20": the fewest candles the tool accepts.
MinKlines == 20

FirstSweepOffsetMutant(offsets) ==
    CHOOSE i \in offsets : \A j \in offsets : i >= j

\* "if sweep_detected: break": the loop runs candle_offset upwards and stops
\* at the first candle that shows a sweep.
FirstSweepOffset(offsets) ==
    CHOOSE i \in offsets : \A j \in offsets : i <= j

\* The loop over the last lookback_candles candles, newest first; it ends
\* early when abs(idx) >= len(closes).
SweepScan(c, lookback_candles, kline_count) ==
    LET current_price == CandleAt(c.candles, 0).close
        offsets == { k \in 0..(lookback_candles - 1) :
                         k + 1 < kline_count /\ CandleSweep(c, k) # <<>> }
    IN  IF offsets = {}
        THEN [status |-> "success", sweep_detected |-> FALSE,
              current_price |-> current_price]
        ELSE LET k == FirstSweepOffset(offsets)
                 sweep == CandleSweep(c, k)[1]
             IN  [status |-> "success", sweep_detected |-> TRUE,
                  sweep_type |-> sweep.sweep_type,
                  sweep_level |-> sweep.sweep_level,
                  sweep_wick |-> sweep.sweep_wick,
                  sweep_candles_ago |-> k + 1,
                  confirmation |-> sweep.confirmation,
                  current_price |-> current_price]

\* tools/liquidity.py detect_liquidity_sweep, from the swing points on: the
\* first of the last lookback_candles (default 5) candles, newest first,
\* that shows a sweep.
detect_liquidity_sweep(c) ==
    IF ~c.enough_klines THEN [status |-> "error"]
    ELSE SweepScan(c, LookbackCandles, MinKlines)

\* tools/analysis.py detect_liquidity_sweep: the last candle against the last
\* three swing highs, then the last three swing lows.
analysis_detect_liquidity_sweep(c) ==
    LET candle == CandleAt(c.candles, 0)
        high == SweptHighLevel(candle, LastN(c.swing_highs, 3))
        low == SweptLowLevel(candle, LastN(c.swing_lows, 3))
    IN  IF c.swing_highs = <<>> \/ c.swing_lows = <<>> \/ ~c.enough_klines
        THEN [status |-> "success", detected |-> FALSE]
        ELSE IF high # <<>>
        THEN [status |-> "success", detected |-> TRUE,
              type |-> "bearish_sweep", level |-> high[1]]
        ELSE IF low # <<>>
        THEN [status |-> "success", detected |-> TRUE,
              type |-> "bullish_sweep", level |-> low[1]]
        ELSE [status |-> "success", detected |-> FALSE]

\* Number of candles the exchange returns for the whole-tool calls.
KlineCount == 20

QuietCandle == [open |-> 95, high |-> 97, low |-> 93, close |-> 96]

\* A candle that forms a swing high at 100 and one that wicks above it and
\* closes back below; a candle that forms a swing low at 90 and one that
\* wicks below it and closes back above.
PeakCandle == [open |-> 98, high |-> 100, low |-> 96, close |-> 99]
HighSweeper == [open |-> 99, high |-> 101, low |-> 97, close |-> 98]
TroughCandle == [open |-> 92, high |-> 94, low |-> 90, close |-> 91]
LowSweeper == [open |-> 91, high |-> 93, low |-> 89, close |-> 92]

\* Candles oldest first: quiet ones, with one swing candle and one sweeper.
Klines(count, swing, swing_at, sweeper, sweeper_at) ==
    [ i \in 1..count |-> IF i = swing_at THEN swing
                         ELSE IF i = sweeper_at THEN sweeper
                         ELSE QuietCandle ]

KlineLists ==
    { Klines(KlineCount, pair[1], p, pair[2], q) :
        pair \in { <<PeakCandle, HighSweeper>>, <<TroughCandle, LowSweeper>> },
        p \in 1..KlineCount, q \in 1..KlineCount }
    \cup { Klines(MinKlines - 1, PeakCandle, 10, HighSweeper, 19) }

LookbackValues == {1, 5, 6, 7, 11, 25}

KlineSweepCalls ==
    [ fn : {"liquidity.detect_liquidity_sweep"},
      klines : KlineLists,
      lookback_candles : LookbackValues ]

\* tools/liquidity.py is_swing_high / is_swing_low at the 1-based position
\* j, lookback 3: not lower (higher) than any of the three candles on
\* either side.
is_swing_high(highs, j) ==
    \A d \in 1..3 : highs[j] >= highs[j - d] /\ highs[j] >= highs[j + d]

is_swing_low(lows, j) ==
    \A d \in 1..3 : lows[j] <= lows[j - d] /\ lows[j] <= lows[j + d]

RECURSIVE SwingHighsFrom(_, _)
SwingHighsFrom(highs, j) ==
    IF j > Len(highs) - 3 THEN <<>>
    ELSE (IF is_swing_high(highs, j)
          THEN << [index |-> j - 1, price |-> highs[j]] >> ELSE <<>>)
         \o SwingHighsFrom(highs, j + 1)

RECURSIVE SwingLowsFrom(_, _)
SwingLowsFrom(lows, j) ==
    IF j > Len(lows) - 3 THEN <<>>
    ELSE (IF is_swing_low(lows, j)
          THEN << [index |-> j - 1, price |-> lows[j]] >> ELSE <<>>)
         \o SwingLowsFrom(lows, j + 1)

\* tools/liquidity.py find_swing_points(highs, lows, lookback=3): index is
\* the 0-based list index "for i in range(lookback, len(highs) - lookback)".
find_swing_points(highs, lows) ==
    [ swing_highs |-> SwingHighsFrom(highs, 4),
      swing_lows |-> SwingLowsFrom(lows, 4) ]

\* "find_swing_points(highs[:-3], lows[:-3], lookback=3)"
SweepSwings(klines) ==
    LET kept == SubSeq(klines, 1, Len(klines) - 3)
    IN  find_swing_points([ i \in DOMAIN kept |-> kept[i].high ],
                          [ i \in DOMAIN kept |-> kept[i].low ])

SwingPriceList(swings) == [ i \in DOMAIN swings |-> swings[i].price ]

\* tools/liquidity.py detect_liquidity_sweep as a whole, from the fetched
\* candles and the lookback_candles argument.
liquidity_detect_liquidity_sweep(c) ==
    IF Len(c.klines) < MinKlines THEN [status |-> "error"]
    ELSE LET swings == SweepSwings(c.klines)
         IN  SweepScan([ swing_highs |-> SwingPriceList(swings.swing_highs),
                         swing_lows |-> SwingPriceList(swings.swing_lows),
                         candles |-> c.klines ],
                       c.lookback_candles, Len(c.klines))

LiquidityDetectLiquiditySweep ==
    /\ call.fn = "liquidity.detect_liquidity_sweep"
    /\ result = Pending
    /\ result' = liquidity_detect_liquidity_sweep(call)
    /\ UNCHANGED <<call, tracker_vars>>

DetectLiquiditySweep ==
    /\ call.fn = "detect_liquidity_sweep"
    /\ result = Pending
    /\ result' = detect_liquidity_sweep(call)
    /\ UNCHANGED <<call, tracker_vars>>

AnalysisDetectLiquiditySweep ==
    /\ call.fn = "analysis.detect_liquidity_sweep"
    /\ result = Pending
    /\ result' = analysis_detect_liquidity_sweep(call)
    /\ UNCHANGED <<call, tracker_vars>>

InitSweep ==
    /\ call \in SweepCalls \cup KlineSweepCalls
    /\ result = Pending
    /\ TrackerIdle

NextSweep ==
    \/ DetectLiquiditySweep
    \/ AnalysisDetectLiquiditySweep
    \/ LiquidityDetectLiquiditySweep

SpecSweep == InitSweep /\ [][NextSweep]_vars

\* The tool of tools/liquidity.py has reported a sweep of the given type.
ToolSweep(type) ==
    /\ call.fn = "detect_liquidity_sweep"
    /\ result.status = "success"
    /\ result.sweep_detected
    /\ result.sweep_type = type

\* The whole tool, run on fetched candles, has returned successfully.
KlineSweepReturned ==
    /\ call.fn = "liquidity.detect_liquidity_sweep"
    /\ result # Pending
    /\ result.status = "success"

\* The helper of tools/analysis.py has reported a sweep of the given type.
HelperSweep(type) ==
    /\ call.fn = "analysis.detect_liquidity_sweep"
    /\ result.status = "success"
    /\ result.detected
    /\ result.type = type

\* C13: a candle whose high exceeds a swing high X but whose close is at or
\* above X is never flagged as a bearish sweep of X, and a candle whose low
\* is below a swing low X but whose close is at or below X is never flagged
\* as a bullish sweep of X: every reported sweep level is a swing level lying
\* strictly between the wick extreme and the close of the reported candle.
C13_SweepClosesBackInside ==
    LET last == CandleAt(call.candles, 0)
        reported == CandleAt(call.candles, result.sweep_candles_ago - 1)
    IN  /\ ToolSweep("bearish") =>
               /\ result.sweep_level \in SwingPrices(call.swing_highs)
               /\ result.sweep_wick = reported.high
               /\ reported.close < result.sweep_level
               /\ result.sweep_level < reported.high
        /\ ToolSweep("bullish") =>
               /\ result.sweep_level \in SwingPrices(call.swing_lows)
               /\ result.sweep_wick = reported.low
               /\ reported.low < result.sweep_level
               /\ result.sweep_level < reported.close
        /\ HelperSweep("bearish_sweep") =>
               /\ result.level \in SwingPrices(call.swing_highs)
               /\ last.close < result.level
               /\ result.level < last.high
        /\ HelperSweep("bullish_sweep") =>
               /\ result.level \in SwingPrices(call.swing_lows)
               /\ last.low < result.level
               /\ result.level < last.close

\* C13 witness: the last candle closed exactly at the swing high 100 after a
\* wick above it and is not the reported candle; the sweep reported is the
\* one of an older candle that closed back below 100.
C13_Witness ==
    /\ ToolSweep("bearish")
    /\ CandleAt(call.candles, 0).high > 100
    /\ CandleAt(call.candles, 0).close = 100
    /\ result.sweep_level = 100
    /\ result.sweep_candles_ago > 1

----------------------------------------------------------------------------
(* tools/liquidity.py: mtf_liquidity_scan                                  *)
(* The scan composes the results of find_liquidity_pools (1H),             *)
(* detect_liquidity_sweep (15m and 5m) and get_opposing_liquidity; a call  *)
(* is the tuple of what these returned.  Prices are in price units;        *)
(* returned round(x, 2) values are in hundredths.                          *)

\* detect_market_bias results.
Biases == {"bullish", "bearish", "neutral"}

\* find_liquidity_pools(timeframe="60"): an error, or bias and price.
HtfResults ==
    { [status |-> "error"] } \cup
    [ status : {"success"}, bias : Biases, price : {95200} ]

\* detect_liquidity_sweep(timeframe="15"): an error, no sweep, or a sweep.
MtfResults ==
    { [status |-> "error"], [status |-> "success", sweep_detected |-> FALSE] } \cup
    [ status : {"success"},
      sweep_detected : {TRUE},
      sweep_type : {"bullish", "bearish"},
      confirmation : BOOLEAN,
      sweep_level : {94800, 95600},
      sweep_wick : {94700, 95700} ]

\* detect_liquidity_sweep(timeframe="5"): an error, or the current price;
\* 94500 and 95900 lie beyond both sweep wicks and their 0.2% buffers.
LtfResults ==
    { [status |-> "error"] } \cup
    [ status : {"success"}, current_price : {94500, 95100, 95200, 95900} ]

\* The find_liquidity_pools(timeframe="60", lookback=100) call that
\* get_opposing_liquidity makes: its own fetch of the 1H candles, after the
\* scan's.
OpposingPools ==
    [ fn : {"find_liquidity_pools"},
      enough_klines : {FALSE},
      swing_highs : {<<>>},
      swing_lows : {<<>>},
      price : {95200} ]
    \cup
    [ fn : {"find_liquidity_pools"},
      enough_klines : {TRUE},
      swing_highs : { <<>>, <<96200>>, <<96202, 96200>>, <<95150, 96200>>,
                      <<95010, 95020, 95030, 95040, 95050, 96200>> },
      swing_lows : { <<>>, <<94200>>, <<94198, 94200>>, <<95150, 94200>> },
      price : {95000, 95200} ]

ScanCalls ==
    [ fn : {"mtf_liquidity_scan"},
      htf : HtfResults,
      mtf : MtfResults,
      ltf : LtfResults,
      pools : OpposingPools ]

\* [p for p in pools["bsl"] if p["price"] > entry_price]
RECURSIVE PoolsAbove(_, _)
PoolsAbove(seq, entry_price) ==
    IF seq = <<>> THEN <<>>
    ELSE IF Head(seq).price > entry_price
    THEN <<Head(seq)>> \o PoolsAbove(Tail(seq), entry_price)
    ELSE PoolsAbove(Tail(seq), entry_price)

\* [p for p in pools["ssl"] if p["price"] < entry_price]
RECURSIVE PoolsBelow(_, _)
PoolsBelow(seq, entry_price) ==
    IF seq = <<>> THEN <<>>
    ELSE IF Head(seq).price < entry_price
    THEN <<Head(seq)>> \o PoolsBelow(Tail(seq), entry_price)
    ELSE PoolsBelow(Tail(seq), entry_price)

\* get_opposing_liquidity: the nearest pool beyond the entry, with its
\* distance in hundredths of a percent (round(tp_distance_pct, 2)).
get_opposing_liquidity(fetch, direction, entry_price) ==
    LET pools == find_liquidity_pools(fetch) IN
    IF pools.status = "error" THEN [status |-> "error"]
    ELSE LET targets == IF direction = "LONG"
                        THEN PoolsAbove(pools.bsl, entry_price)
                        ELSE PoolsBelow(pools.ssl, entry_price)
         IN  IF targets = <<>> THEN [status |-> "error"]
             ELSE [status |-> "success",
                   tp_price |-> Head(targets).price,
                   tp_distance_pct |->
                       RoundDiv(Abs(Head(targets).price - entry_price) * 10000,
                                entry_price)]

\* results["mtf"]: the .get() defaults stand in for an error result.
MtfSweepDetected(c) == c.mtf.status = "success" /\ c.mtf.sweep_detected

MtfSweepType(c) == IF MtfSweepDetected(c) THEN c.mtf.sweep_type ELSE "None"

MtfConfirmation(c) == MtfSweepDetected(c) /\ c.mtf.confirmation

\* ltf current_price "or" the 1H price.
ScanPrice(c) ==
    IF c.ltf.status = "success" THEN c.ltf.current_price ELSE c.htf.price

LongSetupMutant(c) ==
    /\ c.htf.bias \in {"bullish", "neutral"}
    /\ MtfSweepType(c) = "bullish"

\* "Bullish setup: Bullish/neutral bias + bullish sweep + confirmation".
LongSetup(c) ==
    /\ c.htf.bias \in {"bullish", "neutral"}
    /\ MtfSweepType(c) = "bullish"
    /\ MtfConfirmation(c)

\* "Bearish setup: Bearish/neutral bias + bearish sweep + confirmation".
ShortSetup(c) ==
    /\ ~LongSetup(c)
    /\ c.htf.bias \in {"bearish", "neutral"}
    /\ MtfSweepType(c) = "bearish"
    /\ MtfConfirmation(c)

\* results["setup"] of a valid setup.
ScanSetup(c, direction) ==
    LET current_price == ScanPrice(c)
        opposing == get_opposing_liquidity(c.pools, direction, current_price)
        \* sl_price in thousandths: wick * 0.998 or wick * 1.002
        sl_price == IF direction = "LONG" THEN c.mtf.sweep_wick * 998
                    ELSE c.mtf.sweep_wick * 1002
        \* sl_distance_pct = sl_gap / (10 * current_price) percent
        sl_gap == IF direction = "LONG" THEN 1000 * current_price - sl_price
                  ELSE sl_price - 1000 * current_price
        \* tp_price in hundredths: the pool, or the fixed 2% target
        tp_price == IF opposing.status = "success" THEN 100 * opposing.tp_price
                    ELSE IF direction = "LONG" THEN 102 * current_price
                    ELSE 98 * current_price
        tp_distance_pct == IF opposing.status = "success"
                           THEN opposing.tp_distance_pct ELSE 200
        rr_ratio == IF sl_gap > 0
                    THEN RoundDiv(tp_distance_pct * current_price * 10, sl_gap)
                    ELSE 0
    IN  [direction |-> direction,
         entry |-> current_price,
         sl |-> RoundDiv(sl_price, 10),
         sl_pct |-> RoundDiv(sl_gap * 10, current_price),
         tp |-> tp_price,
         tp_pct |-> tp_distance_pct,
         rr_ratio |-> rr_ratio,
         sweep_level |-> c.mtf.sweep_level]

ScanReasonsMutant(c) ==
    IF ~MtfSweepDetected(c) THEN <<"No sweep on 15m">>
    ELSE IF ~MtfConfirmation(c) THEN <<"Sweep not confirmed">>
    ELSE IF c.htf.bias = "bullish" /\ MtfSweepType(c) = "bearish"
    THEN <<"Sweep against HTF bias">>
    ELSE <<>>

\* The "reasons" list of a NO_TRADE result.
ScanReasons(c) ==
    IF ~MtfSweepDetected(c) THEN <<"No sweep on 15m">>
    ELSE IF ~MtfConfirmation(c) THEN <<"Sweep not confirmed">>
    ELSE IF c.htf.bias = "bullish" /\ MtfSweepType(c) = "bearish"
    THEN <<"Sweep against HTF bias">>
    ELSE IF c.htf.bias = "bearish" /\ MtfSweepType(c) = "bullish"
    THEN <<"Sweep against HTF bias">>
    ELSE <<>>

\* setup is None (<<>>) or the one setup dict.
mtf_liquidity_scan(c) ==
    IF c.htf.status = "error" THEN [status |-> "error"]
    ELSE IF LongSetup(c)
    THEN [status |-> "success", signal |-> "ENTRY",
          setup |-> <<ScanSetup(c, "LONG")>>, reasons |-> <<>>]
    ELSE IF ShortSetup(c)
    THEN [status |-> "success", signal |-> "ENTRY",
          setup |-> <<ScanSetup(c, "SHORT")>>, reasons |-> <<>>]
    ELSE [status |-> "success", signal |-> "NO_TRADE",
          setup |-> <<>>, reasons |-> ScanReasons(c)]

MtfLiquidityScan ==
    /\ call.fn = "mtf_liquidity_scan"
    /\ result = Pending
    /\ result' = mtf_liquidity_scan(call)
    /\ UNCHANGED <<call, tracker_vars>>

InitScan == call \in ScanCalls /\ result = Pending /\ TrackerIdle

NextScan == MtfLiquidityScan

SpecScan == InitScan /\ [][NextScan]_vars

\* mtf_liquidity_scan has returned status success.
ScanReturned ==
    /\ call.fn = "mtf_liquidity_scan"
    /\ result.status = "success"

\* The 15m sweep of the call is a confirmed sweep of the given type.
ConfirmedSweep(type) ==
    /\ call.mtf.status = "success"
    /\ call.mtf.sweep_detected
    /\ call.mtf.sweep_type = type
    /\ call.mtf.confirmation

\* C10: mtf_liquidity_scan emits ENTRY with direction LONG exactly when the 1H
\* bias is bullish or neutral and the 15m sweep is bullish and confirmed, and
\* ENTRY with direction SHORT exactly when the bias is bearish or neutral and
\* the sweep is bearish and confirmed; in every other case the signal is
\* NO_TRADE and the setup is empty.
C10_EntryIffBiasAndConfirmedSweep ==
    ScanReturned =>
        LET long == call.htf.bias \in {"bullish", "neutral"}
                        /\ ConfirmedSweep("bullish")
            short == call.htf.bias \in {"bearish", "neutral"}
                         /\ ConfirmedSweep("bearish")
            entry(direction) ==
                /\ result.signal = "ENTRY"
                /\ Len(result.setup) = 1
                /\ result.setup[1].direction = direction
        IN  /\ entry("LONG") <=> long
            /\ entry("SHORT") <=> short
            /\ (~long /\ ~short) =>
                   (result.signal = "NO_TRADE" /\ result.setup = <<>>)

\* C10 witness: a neutral 1H bias with a confirmed bearish 15m sweep was
\* answered with ENTRY SHORT.
C10_Witness ==
    /\ ScanReturned
    /\ call.htf.bias = "neutral"
    /\ ConfirmedSweep("bearish")
    /\ result.signal = "ENTRY"
    /\ result.setup[1].direction = "SHORT"

\* mtf_liquidity_scan has returned ENTRY with the given direction.
ScanEntry(direction) ==
    /\ ScanReturned
    /\ result.signal = "ENTRY"
    /\ result.setup[1].direction = direction

\* The prices of the 1H pools beyond the entry on the take-profit side, in
\* the candles get_opposing_liquidity fetched: BSL (swing highs above the 1H
\* price) above the entry, SSL (swing lows below the 1H price) below it.
PoolsBeyondEntry(direction, entry) ==
    IF ~call.pools.enough_klines THEN {}
    ELSE IF direction = "LONG"
    THEN { p \in SwingPrices(call.pools.swing_highs) :
               p > call.pools.price /\ p > entry }
    ELSE { p \in SwingPrices(call.pools.swing_lows) :
               p < call.pools.price /\ p < entry }

\* rr (hundredths) is tp_pct / sl_pct up to the rounding of the three
\* reported values to 2 decimals.
RatioOfReported(rr, tp_pct, sl_pct) ==
    /\ sl_pct > 0
    /\ (2 * rr - 1) * (2 * sl_pct - 1) <= 400 * tp_pct + 200
    /\ (2 * rr + 1) * (2 * sl_pct + 1) >= 400 * tp_pct - 200

\* C11: on a valid setup the scan reports entry = the current 5m price,
\* stop = sweep wick * 0.998 for LONG and * 1.002 for SHORT, take-profit = the
\* nearest 1H opposing pool beyond the entry whenever one exists and the
\* fixed 2% target otherwise, and rr_ratio = tp_pct / sl_pct.
C11_SetupLevels ==
    \A direction \in {"LONG", "SHORT"} :
        ScanEntry(direction) =>
            LET setup == result.setup[1]
                beyond == PoolsBeyondEntry(direction, setup.entry)
                nearest == IF direction = "LONG"
                           THEN CHOOSE p \in beyond : \A q \in beyond : p <= q
                           ELSE CHOOSE p \in beyond : \A q \in beyond : p >= q
            IN  /\ call.ltf.status = "success"
                /\ setup.entry = call.ltf.current_price
                /\ setup.sl = IF direction = "LONG"
                              THEN RoundDiv(call.mtf.sweep_wick * 998, 10)
                              ELSE RoundDiv(call.mtf.sweep_wick * 1002, 10)
                /\ setup.tp = IF beyond # {} THEN 100 * nearest
                              ELSE IF direction = "LONG"
                              THEN 102 * setup.entry
                              ELSE 98 * setup.entry
                /\ RatioOfReported(setup.rr_ratio, setup.tp_pct, setup.sl_pct)

\* C11 failing case: the 5m price and the stop are as claimed, two 1H swing
\* highs beyond the entry share the rounded distance_pct, and the reported
\* take-profit of the LONG setup is the farther one.
C11_TargetIsFartherPool ==
    /\ ScanEntry("LONG")
    /\ call.ltf.status = "success"
    /\ result.setup[1].sl_pct > 0
    /\ \E p \in PoolsBeyondEntry("LONG", result.setup[1].entry) :
           100 * p < result.setup[1].tp

\* The scenario of the specification: bias bullish, confirmed bullish sweep
\* with wick 94700, price 95200, nearest BSL 96200 gives LONG, stop 94510.6,
\* tp 96200, sl_pct 0.72, tp_pct 1.05, rr_ratio 1.45.
C11_Scenario ==
    ( /\ ScanReturned
      /\ call.htf.bias = "bullish"
      /\ ConfirmedSweep("bullish")
      /\ call.mtf.sweep_wick = 94700
      /\ call.ltf.status = "success"
      /\ call.ltf.current_price = 95200
      /\ call.pools.enough_klines
      /\ call.pools.swing_highs = <<96200>> )
    => /\ result.signal = "ENTRY"
       /\ result.setup[1].direction = "LONG"
       /\ result.setup[1].entry = 95200
       /\ result.setup[1].sl = 9451060
       /\ result.setup[1].tp = 9620000
       /\ result.setup[1].sl_pct = 72
       /\ result.setup[1].tp_pct = 105
       /\ result.setup[1].rr_ratio = 145

\* C12: whenever mtf_liquidity_scan returns NO_TRADE the reason list holds
\* exactly one of the three specific reasons, the one that applies: no sweep
\* on 15m, sweep not confirmed, or sweep against the 1H bias; it is never
\* empty, so the generic "No valid setup" text is never produced.
C12_NoTradeHasSpecificReason ==
    (ScanReturned /\ result.signal = "NO_TRADE") =>
        LET detected == call.mtf.status = "success" /\ call.mtf.sweep_detected
            confirmed == detected /\ call.mtf.confirmation
        IN  /\ result.reasons # <<>>
            /\ Len(result.reasons) = 1
            /\ result.reasons[1] =
                   IF ~detected THEN "No sweep on 15m"
                   ELSE IF ~confirmed THEN "Sweep not confirmed"
                   ELSE "Sweep against HTF bias"
            /\ (detected /\ confirmed) =>
                   \/ call.htf.bias = "bullish" /\ call.mtf.sweep_type = "bearish"
                   \/ call.htf.bias = "bearish" /\ call.mtf.sweep_type = "bullish"

\* C12 witness: a confirmed bullish sweep under a bearish 1H bias was
\* answered with NO_TRADE and the reason "Sweep against HTF bias".
C12_Witness ==
    /\ ScanReturned
    /\ call.htf.bias = "bearish"
    /\ ConfirmedSweep("bullish")
    /\ result.signal = "NO_TRADE"
    /\ result.reasons = <<"Sweep against HTF bias">>

\* C14: neither position sizer returns status success for invalid inputs:
\* calculate_position returns status error when balance <= 0,
\* entry_price <= 0, stop_loss <= 0 or entry_price = stop_loss, and
\* calculate_position_dynamic returns status error when balance, entry, stop
\* or target is non-positive or entry_price = stop_loss, whatever the
\* take_profit.
C14_InvalidInputsRejected ==
    /\ ( /\ call.fn = "calculate_position"
         /\ result # Pending
         /\ \/ call.balance <= 0
            \/ call.entry_price <= 0
            \/ call.stop_loss <= 0
            \/ call.entry_price = call.stop_loss )
       => result.status = "error"
    /\ ( /\ call.fn = "calculate_position_dynamic"
         /\ result # Pending
         /\ \/ call.balance <= 0
            \/ call.entry_price <= 0
            \/ call.stop_loss <= 0
            \/ call.take_profit <= 0
            \/ call.entry_price = call.stop_loss )
       => result.status = "error"

\* C14 witness: calculate_position_dynamic with entry_price = stop_loss and a
\* take_profit below the entry, which passes the SHORT validation, returned
\* status error.
C14_Witness ==
    /\ call.fn = "calculate_position_dynamic"
    /\ call.balance > 0
    /\ call.entry_price > 0
    /\ call.entry_price = call.stop_loss
    /\ call.take_profit > 0
    /\ call.take_profit < call.entry_price
    /\ result.status = "error"

\* calculate_position has returned for inputs that pass the validation of
\* the specification: balance > 0, entry > 0, stop > 0, entry # stop.
PositionValidReturned ==
    /\ call.fn = "calculate_position"
    /\ result # Pending
    /\ call.balance > 0
    /\ call.entry_price > 0
    /\ call.stop_loss > 0
    /\ call.entry_price # call.stop_loss

\* The four equations of the fixed sizer on the returned fractions.
PositionEquations ==
    LET sl_fraction ==
            Frac(Abs(call.entry_price - call.stop_loss), call.entry_price)
        leverage == Frac(call.leverage, 1)
    IN  /\ result.status = "success"
        /\ result.risk_amount = Frac(call.balance * call.risk_percent, 100)
        /\ FracMul(result.margin_required, FracMul(sl_fraction, leverage))
               = result.risk_amount
        /\ result.position_size = FracMul(result.margin_required, leverage)
        /\ FracMul(result.quantity, Frac(call.entry_price, 1))
               = result.position_size

C16_FailedAnalysisIsError ==
    ( /\ call.fn = "mtf_liquidity_scan"
      /\ result # Pending
      /\ \/ call.htf.status = "error"
         \/ call.mtf.status = "error"
         \/ call.ltf.status = "error" )
    => result.status = "error"

\* C16 failing case: the 5m sweep detection failed and the scan still
\* returned an ENTRY signal, priced at the 1H close.
C16_EntryAfterFailedAnalysis ==
    /\ ScanReturned
    /\ call.ltf.status = "error"
    /\ result.signal = "ENTRY"
    /\ result.setup[1].entry = call.htf.price

\* C18: under normal volatility select_leverage returns 30, 25, 20, 15 and 10
\* for sl_distance_pct exactly 0.5, 1.0, 1.5, 2.0 and 2.01: each breakpoint
\* belongs to the band below it.
C18_LeverageBreakpoints ==
    ( /\ call.fn = "select_leverage"
      /\ call.volatility = "normal"
      /\ result # Pending )
    => /\ result.status = "success"
       /\ call.sl_distance_pct = 50 => result.recommended_leverage = 30
       /\ call.sl_distance_pct = 100 => result.recommended_leverage = 25
       /\ call.sl_distance_pct = 150 => result.recommended_leverage = 20
       /\ call.sl_distance_pct = 200 => result.recommended_leverage = 15
       /\ call.sl_distance_pct = 201 => result.recommended_leverage = 10

\* C18 witness: sl_distance_pct exactly 2.0 under normal volatility returned
\* 15.
C18_Witness ==
    /\ call.fn = "select_leverage"
    /\ call.volatility = "normal"
    /\ call.sl_distance_pct = 200
    /\ result.status = "success"
    /\ result.recommended_leverage = 15

\* The evidence items an analysis with a defined trend satisfies.
Evidence(data) ==
    LET up == data.trend = "uptrend" IN
    { item \in {"ema", "rsi", "sweep", "zone", "volume"} :
        \/ item = "ema" /\ data.ema_trend = (IF up THEN "bullish" ELSE "bearish")
        \/ item = "rsi" /\ data.rsi # 0
                        /\ (IF up THEN data.rsi < 70 ELSE data.rsi > 30)
        \/ item = "sweep" /\ data.sweep =
                                 (IF up THEN "bullish_sweep" ELSE "bearish_sweep")
        \/ item = "zone" /\ data.has_zone
        \/ item = "volume" /\ data.volume_ratio > 12 }

\* Analyses to compare a call with: every combination of the five evidence
\* items under both defined trends, none of them raising.
EvidenceCases ==
    [ fn : {"check_entry_signal"},
      status : {"success"},
      trend : {"uptrend", "downtrend"},
      ema_trend : {"bullish", "bearish"},
      rsi : {0, 31, 69},
      sweep : SweepKinds,
      has_zone : BOOLEAN,
      zone_entry : {100},
      volume_ratio : {12, 13},
      atr : {"value"},
      current_price : {100} ]

\* C19: the score is monotonically non-decreasing in the evidence: an
\* analysis with the same defined trend that satisfies a superset of the
\* evidence items {EMA confirms trend, RSI ok, trend-aligned sweep, entry
\* zone present, volume above average} scores at least as much; and every
\* reported score lies between 2 and 10.
C19_ScoreMonotonic ==
    (SignalReturned /\ call.trend \in {"uptrend", "downtrend"}) =>
        /\ result.score >= 2
        /\ result.score <= 10
        /\ \A other \in EvidenceCases :
               ( /\ other.trend = call.trend
                 /\ Evidence(call) \subseteq Evidence(other) )
               => check_entry_signal(other).score >= result.score

\* C19 witness: an analysis with all five evidence items scored 10.
C19_Witness ==
    /\ SignalReturned
    /\ call.trend = "downtrend"
    /\ Evidence(call) = {"ema", "rsi", "sweep", "zone", "volume"}
    /\ result.score = 10

\* 0-based index of the candle scanned at candle_offset.
ScannedIndex(klines, candle_offset) == Len(klines) - 1 - candle_offset

\* The offsets the loop of a returned call has visited.
ScannedOffsets ==
    { k \in 0..(call.lookback_candles - 1) :
        /\ k + 1 < Len(call.klines)
        /\ result.sweep_detected => k < result.sweep_candles_ago }

\* The swing points a scanned candle is compared with.
ComparedSwings ==
    LET swings == SweepSwings(call.klines)
        highs == LastN(swings.swing_highs, 5)
        lows == LastN(swings.swing_lows, 5)
    IN  { highs[i] : i \in DOMAIN highs } \cup { lows[i] : i \in DOMAIN lows }

\* C21: for every lookback_candles value, every swing point a scanned candle
\* is compared with has an index strictly smaller than the index of the
\* scanned candle.
C21_SwingsPrecedeScannedCandle ==
    KlineSweepReturned =>
        \A k \in ScannedOffsets : \A s \in ComparedSwings :
            s.index < ScannedIndex(call.klines, k)

\* C21 (failing state): lookback_candles = 11 reports a bearish sweep of a
\* swing high that formed only after the sweeping candle.
C21_SweptLevelFormedLater ==
    /\ KlineSweepReturned
    /\ call.lookback_candles = 11
    /\ result.sweep_detected
    /\ result.sweep_type = "bearish"
    /\ \A s \in ComparedSwings :
          s.price = result.sweep_level =>
              s.index > ScannedIndex(call.klines, result.sweep_candles_ago - 1)

\* The tool of tools/liquidity.py, called either way, has reported a sweep.
SweepReported ==
    /\ call.fn \in {"detect_liquidity_sweep", "liquidity.detect_liquidity_sweep"}
    /\ result # Pending
    /\ result.status = "success"
    /\ result.sweep_detected

\* The candles of the call, oldest first.
CallCandles ==
    IF call.fn = "liquidity.detect_liquidity_sweep" THEN call.klines
    ELSE call.candles

\* The k-th most recent candle of the call.
RecentCandle(k) == CallCandles[Len(CallCandles) - k + 1]

\* The body of a candle opposes a sweep of the given type.
BodyOpposes(candle, sweep_type) ==
    IF sweep_type = "bearish" THEN candle.close < candle.open
    ELSE candle.close > candle.open

\* The number of candles the loop may look at.
CallLookback ==
    IF call.fn = "liquidity.detect_liquidity_sweep"
    THEN call.lookback_candles ELSE LookbackCandles

\* C22: a sweep found on the most recent candle is confirmed exactly when
\* that candle's own body opposes the sweep, a sweep found on an older
\* candle exactly when the body of the candle right after it does; the
\* comparison with the current price decides for no candle offset.
C22_ConfirmationByCandleBody ==
    /\ SweepReported =>
          LET k == result.sweep_candles_ago
              decider == IF k = 1 THEN RecentCandle(1) ELSE RecentCandle(k - 1)
          IN  result.confirmation = BodyOpposes(decider, result.sweep_type)
    /\ call.fn \in {"detect_liquidity_sweep", "liquidity.detect_liquidity_sweep"} =>
          \A candle_offset \in 0..(CallLookback - 1) :
              ConfirmationRule(candle_offset) # "current_price"

\* C22 (witness): a sweep on an older candle whose own body and whose
\* follower's body disagree, confirmed by the follower.
C22_Witness ==
    /\ SweepReported
    /\ result.sweep_candles_ago > 1
    /\ result.confirmation
    /\ ~BodyOpposes(RecentCandle(result.sweep_candles_ago), result.sweep_type)

\* The tool of tools/liquidity.py, called either way, has returned a result.
SweepScanReturned ==
    /\ call.fn \in {"detect_liquidity_sweep", "liquidity.detect_liquidity_sweep"}
    /\ result # Pending
    /\ result.status = "success"

\* The number of candles the call's scan runs over.
CallKlineCount ==
    IF call.fn = "liquidity.detect_liquidity_sweep" THEN Len(call.klines)
    ELSE MinKlines

\* The levels of the last five swing highs and lows of the call.
CallSwingLevels(side) ==
    LET prices == IF call.fn = "liquidity.detect_liquidity_sweep"
                  THEN IF side = "high"
                       THEN SwingPriceList(SweepSwings(call.klines).swing_highs)
                       ELSE SwingPriceList(SweepSwings(call.klines).swing_lows)
                  ELSE IF side = "high" THEN call.swing_highs
                       ELSE call.swing_lows
        last == LastN(prices, 5)
    IN  { last[i] : i \in DOMAIN last }

\* The k-th most recent candle sweeps one of the last five swing highs or
\* one of the last five swing lows.
SweepsAny(k) ==
    LET candle == RecentCandle(k)
    IN  \/ \E level \in CallSwingLevels("high") :
              candle.high > level /\ candle.close < level
        \/ \E level \in CallSwingLevels("low") :
              candle.low < level /\ candle.close > level

\* sweep_candles_ago is the least member of the given set of candle numbers,
\* and no sweep is reported when the set is empty.
ReportsFirstOf(sweepers) ==
    /\ result.sweep_detected <=> sweepers # {}
    /\ result.sweep_detected =>
          /\ result.sweep_candles_ago \in sweepers
          /\ \A j \in sweepers : result.sweep_candles_ago <= j

\* C23 (as stated): sweep_candles_ago is the smallest k in 1..N such that
\* the k-th most recent candle sweeps any of the last five swing highs or
\* last five swing lows.
C23_FirstSweepInLastN ==
    SweepScanReturned =>
        ReportsFirstOf({ k \in 1..Min(CallLookback, CallKlineCount) :
                             SweepsAny(k) })

\* C23 (what the loop does): sweep_candles_ago is the smallest such k among
\* the last N candles without the oldest fetched candle, which the guard
\* "abs(idx) >= len(closes)" keeps the loop from reaching.
C23_FirstSweepInScannedCandles ==
    SweepScanReturned =>
        ReportsFirstOf({ k \in 1..Min(CallLookback, CallKlineCount - 1) :
                             SweepsAny(k) })

\* C23 (scenario): a sweep is reported on a candle that is not the most
\* recent one while an older candle of the window sweeps as well.
C23_NewerSweepReported ==
    /\ SweepReported
    /\ result.sweep_candles_ago > 1
    /\ \E j \in 1..Min(CallLookback, CallKlineCount - 1) :
          j > result.sweep_candles_ago /\ SweepsAny(j)

\* C23 (failing state): lookback_candles covers every fetched candle, the
\* oldest one is the only candle that sweeps, and no sweep is reported.
C23_OldestCandleSkipped ==
    /\ SweepScanReturned
    /\ call.fn = "liquidity.detect_liquidity_sweep"
    /\ call.lookback_candles >= Len(call.klines)
    /\ SweepsAny(Len(call.klines))
    /\ ~result.sweep_detected

C26_ReopenedPositionMarked ==
    \E s \in DOMAIN exchange :
        /\ exchange[s].flagged
        /\ exchange[s].partial_closes = 0
        /\ ~exchange[s].shrunk
        /\ s \in DOMAIN marked

\* C27: every open position a successful get_positions reports is in the
\* open-position list run_cycle hands to the tracker and is counted against
\* MAX_POSITIONS.
C27_ReportedPositionsReachTracker ==
    (call.fn = "run_cycle.get_current_state" /\ result # Pending) =>
        /\ DOMAIN result.reported \subseteq DOMAIN open_positions
        /\ result.position_count = Cardinality(DOMAIN result.reported)
        /\ result.can_open_new <=>
               Cardinality(DOMAIN result.reported) < MAX_POSITIONS

\* C27 (failing state): get_positions reported MAX_POSITIONS open positions,
\* the tracker was handed an empty list and new entries are allowed.
C27_ReportedPositionsDropped ==
    /\ call.fn = "run_cycle.get_current_state"
    /\ result # Pending
    /\ Cardinality(DOMAIN result.reported) = MAX_POSITIONS
    /\ open_positions = EmptyMap
    /\ result.position_count = 0
    /\ result.can_open_new

\* C28: every ENTRY setup is well-formed: for LONG the stop is strictly
\* below the entry and the take-profit strictly above it, for SHORT the
\* other way round, so sl_pct > 0 and rr_ratio > 0.
C28_SetupWellFormed ==
    \A direction \in {"LONG", "SHORT"} :
        ScanEntry(direction) =>
            LET setup == result.setup[1]
            IN  /\ IF direction = "LONG"
                   THEN setup.sl < 100 * setup.entry /\ 100 * setup.entry < setup.tp
                   ELSE setup.sl > 100 * setup.entry /\ 100 * setup.entry > setup.tp
                /\ setup.sl_pct > 0
                /\ setup.rr_ratio > 0

\* C28 (failing state): a confirmed bullish sweep whose wick 94700 lies
\* below the swept level, the 5m price has since fallen to 94500, and the
\* LONG setup has its stop 94510.6 above the entry, sl_pct -0.01, rr_ratio 0.
C28_StopAboveLongEntry ==
    /\ ScanEntry("LONG")
    /\ call.mtf.sweep_wick < call.mtf.sweep_level
    /\ call.ltf.status = "success"
    /\ result.setup[1].entry = 94500
    /\ result.setup[1].sl = 9451060
    /\ result.setup[1].sl_pct = -1
    /\ result.setup[1].rr_ratio = 0
    /\ result.setup[1].tp > 100 * result.setup[1].entry

\* margin (cents) is size (cents) / leverage up to the rounding of both to
\* 2 decimals.
MarginOfReported(margin, size, leverage) ==
    Abs(2 * margin * leverage - 2 * size) <= leverage + 1

\* size (cents) is quantity (millionths) * entry up to the rounding of the
\* size to 2 and of the quantity to 6 decimals.
SizeOfReported(size, quantity, entry) ==
    LET whole == quantity \div 10000
        rest == quantity % 10000
    IN  Abs(20000 * (size - whole * entry) - 2 * rest * entry) <= 10000 + entry

\* C29: every success of calculate_position_dynamic is consistent:
\* margin_required = position_size_usd / leverage and
\* position_size_usd = quantity * entry_price, also when the minimum
\* quantity floor raised the quantity.
C29_DynamicResultConsistent ==
    DynamicReturned =>
        /\ MarginOfReported(result.margin_required, result.position_size_usd,
                            result.leverage)
        /\ SizeOfReported(result.position_size_usd, result.quantity,
                          call.entry_price)

\* C29 (what holds): the size is quantity * entry_price on every success,
\* and the margin is size / leverage whenever the floor did not apply.
C29_ConsistentUnlessFloored ==
    DynamicReturned =>
        /\ SizeOfReported(result.position_size_usd, result.quantity,
                          call.entry_price)
        /\ ~result.floored =>
               MarginOfReported(result.margin_required,
                                result.position_size_usd, result.leverage)

\* C29 (failing state): balance 1, risk 10%, XRPUSDT at 100 with the stop at
\* 90: the floor raises the quantity to 20 and the size to 2000.00, the
\* leverage is 10 and the margin is still 0.10.
C29_MarginOfUnflooredSize ==
    /\ DynamicReturned
    /\ result.floored
    /\ call.symbol = "XRPUSDT" /\ call.balance = 1 /\ call.risk_percent = 10
    /\ call.entry_price = 100 /\ call.stop_loss = 90
    /\ result.quantity = 20000000
    /\ result.position_size_usd = 200000
    /\ result.leverage = 10
    /\ result.margin_required = 10

\* A bias of liquidity.py and a trend of analysis.py say the same.
BiasMatchesTrend(bias, trend) ==
    /\ bias = "bullish" <=> trend = "uptrend"
    /\ bias = "bearish" <=> trend = "downtrend"
    /\ bias = "neutral" <=> trend \in {"ranging", "undefined"}

\* C30: for the same swing lists, equal consecutive prices included,
\* detect_market_bias and detect_market_structure agree: bullish iff
\* uptrend, bearish iff downtrend, neutral iff ranging or undefined.
C30_BiasAgreesWithStructure ==
    /\ (call.fn = "detect_market_bias" /\ result # Pending) =>
           BiasMatchesTrend(result.bias, detect_market_structure(call).trend)
    /\ (call.fn = "detect_market_structure" /\ result # Pending) =>
           BiasMatchesTrend(detect_market_bias(call.swing_highs,
                                               call.swing_lows),
                            result.trend)

\* Two lists each have two prices or more and the last two of none are equal.
NoEqualLastSwings ==
    /\ Len(call.swing_highs) >= 2 /\ Len(call.swing_lows) >= 2
    /\ call.swing_highs[Len(call.swing_highs)]
           # call.swing_highs[Len(call.swing_highs) - 1]
    /\ call.swing_lows[Len(call.swing_lows)]
           # call.swing_lows[Len(call.swing_lows) - 1]

\* C30 (what holds): the two agree whenever a list is too short or neither
\* pair of last prices is equal.
C30_AgreeOnDistinctPrices ==
    (\/ Len(call.swing_highs) < 2 \/ Len(call.swing_lows) < 2
     \/ NoEqualLastSwings) => C30_BiasAgreesWithStructure

\* C30 (failing state): the last two swing highs are equal and the last
\* swing low is lower; the bias is neutral while the structure is LH, LL,
\* a downtrend.
C30_EqualHighsNeutralButDowntrend ==
    /\ call.fn = "detect_market_bias"
    /\ result # Pending
    /\ call.swing_highs = <<2, 2>>
    /\ call.swing_lows = <<2, 1>>
    /\ result.bias = "neutral"
    /\ detect_market_structure(call).trend = "downtrend"

====
